---- MODULE Spec2Model ----
(***************************************************************************)
(* A model of svg2gcode's geometry-to-instruction pipeline:                *)
(*   - the polygon arc detector            (lib/src/arc.rs)                *)
(*   - the G-code emission turtle          (lib/src/turtle/g_code.rs)      *)
(*   - the alignment / trim / origin maths (lib/src/converter/mod.rs)      *)
(*   - the entry of cubic Bezier flattening (lib/src/arc.rs)               *)
(* Coordinates are integers or exact rationals, so every comparison the    *)
(* code makes on f64 values is decided exactly on the inputs enumerated.   *)
(***************************************************************************)
EXTENDS Integers, Sequences, FiniteSets, TLC

VARIABLES
    \* GCodeTurtle (g_code.rs:13-25)
    program,                 \* Vec<Token>
    pending_between_layers,  \* bool
    line_buffer,             \* Vec<Point>
    polygon_arc_enabled,     \* polygon_arc_config.enabled
    supports_circular_interpolation,  \* machine.supported_functionality().circular_interpolation
    tool_state,              \* the machine's tool state, "On" or "Off"
    \* the caller's position in the begin / draw / end protocol, and history
    phase,                   \* "new", "running" or "ended"
    ncalls,                  \* Turtle calls made since begin()
    last_call,               \* the Turtle call made last
    prev,                    \* program length, flag and buffer before that call
    bl_calls,                \* between_layers() calls made
    bl_marks,                \* between_layers() calls that found the flag clear
    \* the other components, one record each
    cv,                      \* svg2program: inputs, intermediate values, output
    fl,                      \* FlattenWithArcs for CubicBezierSegment: input and output
    dp,                      \* detect_polygon_arcs: input and output
    un,                      \* length_to_user_units: input and output
    st,                      \* Settings and the progress of try_upgrade
    ci,                      \* circular_interpolation: the arc, the work left, the output
    rd,                      \* the radii of the arcs on their way to circular_interpolation
    tr                       \* Transformed for SvgArc: the arc and the transforms applied

turtleVars == <<program, pending_between_layers, line_buffer, polygon_arc_enabled,
                supports_circular_interpolation, tool_state, phase, ncalls, last_call, prev,
                bl_calls, bl_marks>>
vars == <<program, pending_between_layers, line_buffer, polygon_arc_enabled,
          supports_circular_interpolation, tool_state, phase, ncalls, last_call, prev,
          bl_calls, bl_marks, cv, fl, dp, un, st, ci, rd, tr>>

-----------------------------------------------------------------------------
(* Integer helpers *)

Abs(x) == IF x < 0 THEN -x ELSE x

RECURSIVE Gcd(_, _)
Gcd(a, b) == IF b = 0 THEN Abs(a) ELSE Gcd(Abs(b), Abs(a) % Abs(b))

Sq(x) == x * x

X(p) == p[1]
Y(p) == p[2]
Sub(p, q) == <<p[1] - q[1], p[2] - q[2]>>
SquareLength(v) == v[1] * v[1] + v[2] * v[2]
Cross(a, b) == a[1] * b[2] - a[2] * b[1]
Dot(a, b) == a[1] * b[1] + a[2] * b[2]

-----------------------------------------------------------------------------
(* Polygon arc detection, arc.rs:414-629.  Points have integer coordinates. *)
(* A tolerance or a minimum radius is a rational <<numerator, denominator>>. *)

None == [ok |-> FALSE]

\* | sqrt(A) - sqrt(B) | / den <= t, for integers A, B >= 0, den > 0 and t = tn/td:
\* with Xv = (A + B) * td^2 - tn^2 * den^2 this is Xv <= 0 or Xv^2 <= 4*A*B*td^4.
RootsWithin(A, B, den, t) ==
    LET Xv == (A + B) * Sq(t[2]) - Sq(t[1]) * Sq(den)
    IN  Xv <= 0 \/ Sq(Xv) <= 4 * A * B * Sq(Sq(t[2]))

\* The square of den * |q - center|, for a circle with centre (cxn/den, cyn/den).
ScaledDist2(q, circle) ==
    Sq(q[1] * circle.den - circle.cxn) + Sq(q[2] * circle.den - circle.cyn)

\* arc.rs:539-565.  cross.abs() < EPSILON is cross = 0 on integers.  The centre
\* p1 + (.., ..) / two_cross is kept as an exact fraction in lowest terms, and
\* radius = (center - p1).length() as r2n = (den * radius)^2.
CircleOf(p1, cxn, cyn, den) ==
    [ok |-> TRUE, cxn |-> cxn, cyn |-> cyn, den |-> den,
     r2n |-> Sq(p1[1] * den - cxn) + Sq(p1[2] * den - cyn)]

\* the centre (nx/d, ny/d) reduced by g, a common divisor with the sign of d
CircleReduced(p1, nx, ny, d, g) == CircleOf(p1, nx \div g, ny \div g, d \div g)

CircleAt(p1, nx, ny, d) ==
    CircleReduced(p1, nx, ny, d, Gcd(Gcd(nx, ny), d) * (IF d < 0 THEN -1 ELSE 1))

CircleFromVectors(p1, a, b, cross) ==
    IF cross = 0 THEN None
    ELSE CircleAt(p1,
                  p1[1] * (cross * 2) + (b[2] * SquareLength(a) - a[2] * SquareLength(b)),
                  p1[2] * (cross * 2) + (a[1] * SquareLength(b) - b[1] * SquareLength(a)),
                  cross * 2)

circle_from_three_points(p1, p2, p3) ==
    CircleFromVectors(p1, Sub(p2, p1), Sub(p3, p1), Cross(Sub(p2, p1), Sub(p3, p1)))

RECURSIVE AllWithin(_, _, _, _)
\* arc.rs:522-531: max_deviation <= tolerance, point by point from index i
AllWithin(points, i, circle, tolerance) ==
    IF i > Len(points) THEN TRUE
    ELSE /\ RootsWithin(ScaledDist2(points[i], circle), circle.r2n, circle.den, tolerance)
         /\ AllWithin(points, i + 1, circle, tolerance)

\* arc.rs:505-536.  radius < 10 * tolerance compared on squares.
FitInitialCircle(points, tolerance, initial_circle) ==
    IF ~initial_circle.ok THEN None
    ELSE IF initial_circle.r2n * Sq(tolerance[2])
               < 100 * Sq(tolerance[1]) * Sq(initial_circle.den)
         THEN None
    ELSE IF AllWithin(points, 1, initial_circle, tolerance) THEN initial_circle
    ELSE None

fit_circle_to_points(points, tolerance) ==
    IF Len(points) < 3 THEN None
    ELSE FitInitialCircle(points, tolerance,
                          circle_from_three_points(points[1], points[2], points[3]))

\* arc.rs:568-629.  An arc keeps its circle as exact fractions: centre
\* (cxn/den, cyn/den) and radius^2 = r2n / den^2.
\*   - chord_length < EPSILON is from = to, radius < EPSILON is r2n = 0;
\*   - |d - r| > 0.1 r is the negation of 0.9 r <= d <= 1.1 r, that is of
\*     81*B <= 100*A <= 121*B for A = (den*d)^2, B = r2n;
\*   - angle = atan2(cross, dot): |angle| < 0.01 holds iff dot > 0 and
\*     |cross|/dot < tan(0.01) = 0.0100003..., which for integers below 30000
\*     is 100 * |cross| <= dot;
\*   - chord > 1.9 r compared on squares: 100 * chord^2 * den^2 > 361 * r2n;
\*   - |angle| >= PI needs cross = 0 and dot < 0, an antipodal pair;
\*   - SvgArc::is_straight_line (lyon_geom) is radii <= 1e-5 or from = to.
CloseToRadius(A, B) == 81 * B <= 100 * A /\ 100 * A <= 121 * B

create_svg_arc_from_circle(from, to, circle) ==
    LET chord2 == SquareLength(Sub(to, from))
        fd2 == ScaledDist2(from, circle)
        td2 == ScaledDist2(to, circle)
        from_vec == <<from[1] * circle.den - circle.cxn, from[2] * circle.den - circle.cyn>>
        to_vec == <<to[1] * circle.den - circle.cxn, to[2] * circle.den - circle.cyn>>
        cross == Cross(from_vec, to_vec)
        dot == Dot(from_vec, to_vec)
    IN  IF chord2 = 0 \/ circle.r2n = 0 THEN None
        ELSE IF ~CloseToRadius(fd2, circle.r2n) \/ ~CloseToRadius(td2, circle.r2n) THEN None
        ELSE IF dot > 0 /\ 100 * Abs(cross) <= dot THEN None
        ELSE IF 100 * chord2 * Sq(circle.den) > 361 * circle.r2n THEN None
        ELSE [ok |-> TRUE, kind |-> "Arc", from |-> from, to |-> to,
              cxn |-> circle.cxn, cyn |-> circle.cyn, den |-> circle.den,
              r2n |-> circle.r2n,
              large_arc |-> (cross = 0 /\ dot < 0),
              sweep |-> (cross >= 0)]

Slice(points, lo, hi) == SubSeq(points, lo + 1, hi)   \* points[lo..hi] of the code

RECURSIVE GrowWindow(_, _, _, _, _)
\* arc.rs:463-492, the loop over end_idx; the result is None or
\* [ok, arc_length, arc]
GrowWindow(points, start_idx, end_idx, tolerance, min_points) ==
    IF end_idx > Len(points) THEN None
    ELSE LET segment == Slice(points, start_idx, end_idx)
             circle == fit_circle_to_points(segment, tolerance)
         IN  IF circle.ok
             THEN LET svg_arc == create_svg_arc_from_circle(
                                     segment[1], segment[Len(segment)], circle)
                  IN  IF svg_arc.ok
                      THEN [ok |-> TRUE, arc_length |-> end_idx - start_idx - 1,
                            arc |-> svg_arc]
                      ELSE GrowWindow(points, start_idx, end_idx + 1, tolerance, min_points)
             ELSE IF end_idx > start_idx + min_points
                  THEN LET prev_segment == Slice(points, start_idx, end_idx - 1)
                           pc == fit_circle_to_points(prev_segment, tolerance)
                           pa == IF pc.ok
                                 THEN create_svg_arc_from_circle(
                                          prev_segment[1],
                                          prev_segment[Len(prev_segment)], pc)
                                 ELSE None
                       IN  IF pa.ok
                           THEN [ok |-> TRUE, arc_length |-> end_idx - start_idx - 2,
                                 arc |-> pa]
                           ELSE None
                  ELSE None

\* detect_arc_starting_at that counts the window's points, not its segments
detect_arc_starting_at_counting_points(points, start_idx, tolerance, min_points) ==
    IF start_idx + min_points > Len(points) THEN None
    ELSE LET found == GrowWindow(points, start_idx, start_idx + min_points, tolerance,
                                 min_points)
         IN  IF found.ok THEN [found EXCEPT !.arc_length = @ + 1] ELSE None

\* arc.rs:449-495
detect_arc_starting_at(points, start_idx, tolerance, min_points) ==
    IF start_idx + min_points > Len(points) THEN None
    ELSE GrowWindow(points, start_idx, start_idx + min_points, tolerance, min_points)

LineSegment(from, to) == [kind |-> "Line", from |-> from, to |-> to]

RECURSIVE DetectSteps(_, _, _, _, _, _)
\* arc.rs:430-443, at most `steps` iterations of the while loop from the
\* 0-based cursor i; the result is the cursor and the segments so far
DetectSteps(points, i, tolerance, min_points, result, steps) ==
    IF steps = 0 \/ ~(i < Len(points) - 1) THEN [i |-> i, result |-> result]
    ELSE LET found == detect_arc_starting_at(points, i, tolerance, min_points)
         IN  IF found.ok
             THEN DetectSteps(points, i + found.arc_length, tolerance, min_points,
                              Append(result, found.arc), steps - 1)
             ELSE DetectSteps(points, i + 1, tolerance, min_points,
                              Append(result, LineSegment(points[i + 1], points[i + 2])),
                              steps - 1)

RECURSIVE DetectLoop(_, _, _, _, _)
\* arc.rs:430-443, the while loop run to its end.  The iterations are taken
\* in groups of 32 so that the evaluation of a 1001-point buffer nests
\* shallowly; the result does not depend on the grouping.
DetectLoop(points, i, tolerance, min_points, result) ==
    IF ~(i < Len(points) - 1) THEN result
    ELSE LET group == DetectSteps(points, i, tolerance, min_points, result, 32)
         IN  DetectLoop(points, group.i, tolerance, min_points, group.result)

\* detect_polygon_arcs that returns nothing for fewer than three points
detect_polygon_arcs_from_three(points, tolerance, min_points) ==
    IF Len(points) < 3 THEN <<>>
    ELSE DetectLoop(points, 0, tolerance, min_points, <<>>)

\* arc.rs:415-446
detect_polygon_arcs(points, tolerance, min_points) ==
    IF Len(points) < 2 THEN <<>>
    ELSE DetectLoop(points, 0, tolerance, min_points, <<>>)

-----------------------------------------------------------------------------
(* Tokens.  A token is [t |-> kind, p |-> target point or <<>>]; a circular  *)
(* move also carries its centre offsets.  A configured machine sequence is   *)
(* one opaque token standing for the tokens the Machine call returns.        *)

NoPoint == <<>>
Tok(t) == [t |-> t, p |-> NoPoint]
UnitsMillimeters == Tok("UnitsMillimeters")
BlankComment == Tok("BlankComment")
RapidPositioning(to) == [t |-> "RapidPositioning", p |-> to]
LinearInterpolation(to) == [t |-> "LinearInterpolation", p |-> to]

\* Machine (machine.rs): the token lists its calls return
machine_tool_on == <<Tok("ToolOnSequence")>>
machine_tool_off == <<Tok("ToolOffSequence")>>
machine_absolute == <<Tok("AbsoluteDistanceMode")>>
machine_program_begin == <<Tok("ProgramBeginSequence")>>
machine_program_end == <<Tok("ProgramEndSequence")>>
machine_between_layers == <<Tok("BetweenLayersSequence")>>

-----------------------------------------------------------------------------
(* GCodeTurtle, g_code.rs.  Its methods are functions on the record          *)
(* [program, pending_between_layers, line_buffer, tool_state].               *)

\* polygon_arc_config.min_points and .tolerance, and min_arc_radius
MinPoints == 3
PolygonArcTolerance == <<1, 2>>
MinArcRadius == <<1, 1>>
MAX_BUFFER_SIZE == 1000

St == [program |-> program, pending_between_layers |-> pending_between_layers,
       line_buffer |-> line_buffer, tool_state |-> tool_state]

Emit(s, tokens) == [s EXCEPT !.program = @ \o tokens]

\* radius < m and chord < m for m = m[1]/m[2], on squares
RadiusBelow(arc, m) == arc.r2n * Sq(m[2]) < Sq(m[1]) * Sq(arc.den)
ChordBelow(arc, m) == SquareLength(Sub(arc.to, arc.from)) * Sq(m[2]) < Sq(m[1])

\* SvgArc::is_straight_line (lyon_geom): a radius <= 1e-5 or from = to.  A radius
\* r2n/den^2 of integers is <= 1e-10 only when r2n = 0.
is_straight_line(arc) == arc.r2n = 0 \/ arc.from = arc.to

\* g_code.rs:147-148.  chord ~ 2R or sweep ~ PI within 1e-5: on these inputs
\* (end points and centre on a grid of step 1/den, radius below 50) the end
\* points are then antipodal, chord^2 = 4 radius^2.
near_semi(arc) == SquareLength(Sub(arc.to, arc.from)) * Sq(arc.den) = 4 * arc.r2n

ISqrt(n) == CHOOSE k \in 0..n : k * k = n

\* a midpoint taken on the bisector of the end points, on the near side always
ArcMidpoint_near_side(arc) ==
    LET f == <<arc.from[1] * arc.den - arc.cxn, arc.from[2] * arc.den - arc.cyn>>
        t == <<arc.to[1] * arc.den - arc.cxn, arc.to[2] * arc.den - arc.cyn>>
        b == <<f[1] + t[1], f[2] + t[2]>>
        n == ISqrt(SquareLength(b))
        r == ISqrt(arc.r2n)
        m == IF b = <<0, 0>>
             THEN IF arc.sweep THEN <<-f[2], f[1]>> ELSE <<f[2], -f[1]>>
             ELSE <<(r * b[1]) \div n, (r * b[2]) \div n>>
    IN  <<(arc.cxn + m[1]) \div arc.den, (arc.cyn + m[2]) \div arc.den>>

\* Arc::split(0.5) (lyon_geom): the point half way along the arc, and the two
\* halves as SvgArcs on the same circle.  With f and t the vectors from the
\* centre to the end points (scaled by den), the midpoint lies on the bisector
\* f + t, on the far side for a large arc; for antipodal end points it is f
\* turned a quarter turn in the direction of the sweep.
ArcMidpoint(arc) ==
    LET f == <<arc.from[1] * arc.den - arc.cxn, arc.from[2] * arc.den - arc.cyn>>
        t == <<arc.to[1] * arc.den - arc.cxn, arc.to[2] * arc.den - arc.cyn>>
        b == <<f[1] + t[1], f[2] + t[2]>>
        n == ISqrt(SquareLength(b))
        r == ISqrt(arc.r2n)
        sgn == IF arc.large_arc THEN -1 ELSE 1
        m == IF b = <<0, 0>>
             THEN IF arc.sweep THEN <<-f[2], f[1]>> ELSE <<f[2], -f[1]>>
             ELSE <<sgn * ((r * b[1]) \div n), sgn * ((r * b[2]) \div n)>>
    IN  <<(arc.cxn + m[1]) \div arc.den, (arc.cyn + m[2]) \div arc.den>>

ArcSplit(arc) ==
    LET mid == ArcMidpoint(arc)
    IN  <<[arc EXCEPT !.to = mid, !.large_arc = FALSE],
          [arc EXCEPT !.from = mid, !.large_arc = FALSE]>>

\* a circular move turning the other way
CircularMove_reversed(arc) ==
    [t |-> IF arc.sweep THEN "ClockwiseCircularInterpolation"
           ELSE "CounterclockwiseCircularInterpolation",
     p |-> arc.to,
     I |-> <<arc.cxn - arc.from[1] * arc.den, arc.den>>,
     J |-> <<arc.cyn - arc.from[2] * arc.den, arc.den>>]

\* g_code.rs:156-178
CircularMove(arc) ==
    [t |-> IF arc.sweep THEN "CounterclockwiseCircularInterpolation"
           ELSE "ClockwiseCircularInterpolation",
     p |-> arc.to,
     I |-> <<arc.cxn - arc.from[1] * arc.den, arc.den>>,
     J |-> <<arc.cyn - arc.from[2] * arc.den, arc.den>>]

\* a fallback test that leaves the chord out
Degraded_ignoring_chord(svg_arc, min_arc_radius) ==
    \/ RadiusBelow(svg_arc, min_arc_radius)
    \/ svg_arc.from = svg_arc.to

\* g_code.rs:136-139, the test for the fallback to a linear move.  The sweep
\* angle of an arc between distinct grid points is never below 1e-6, so that
\* test is from = to.
Degraded(svg_arc, min_arc_radius) ==
    \/ RadiusBelow(svg_arc, min_arc_radius)
    \/ ChordBelow(svg_arc, min_arc_radius)
    \/ svg_arc.from = svg_arc.to

\* g_code.rs:147-149, the test for the split
Bisected(svg_arc) == svg_arc.large_arc \/ near_semi(svg_arc)

RECURSIVE circular_interpolation_with(_, _)
\* g_code.rs:124-179 for a turtle whose min_arc_radius is the second argument
circular_interpolation_with(svg_arc, min_arc_radius) ==
    IF Degraded(svg_arc, min_arc_radius)
    THEN <<LinearInterpolation(svg_arc.to)>>
    ELSE IF Bisected(svg_arc)
    THEN circular_interpolation_with(ArcSplit(svg_arc)[1], min_arc_radius)
             \o circular_interpolation_with(ArcSplit(svg_arc)[2], min_arc_radius)
    ELSE <<CircularMove(svg_arc)>>

\* g_code.rs:124-179
circular_interpolation(svg_arc) == circular_interpolation_with(svg_arc, MinArcRadius)

\* g_code.rs:76-107, the body of the loop over the detected segments, for a
\* turtle whose min_arc_radius is the second argument
SegmentTokensWith(segment, min_arc_radius) ==
    IF segment.kind = "Arc"
    THEN IF /\ ~is_straight_line(segment)
            /\ ~RadiusBelow(segment, min_arc_radius)
         THEN circular_interpolation_with(segment, min_arc_radius)
         ELSE <<LinearInterpolation(segment.to)>>
    ELSE <<LinearInterpolation(segment.to)>>

\* g_code.rs:76-107, the body of the loop over the detected segments
SegmentTokens(segment) == SegmentTokensWith(segment, MinArcRadius)

RECURSIVE FlushRange(_, _, _)
\* the tokens of segments lo..hi in order, by halves
FlushRange(segments, lo, hi) ==
    IF lo > hi THEN <<>>
    ELSE IF lo = hi THEN SegmentTokens(segments[lo])
    ELSE FlushRange(segments, lo, (lo + hi) \div 2)
             \o FlushRange(segments, (lo + hi) \div 2 + 1, hi)

\* g_code.rs:76-107: for segment in segments, from the i-th on
FlushSegments(segments, i) == FlushRange(segments, i, Len(segments))

\* g_code.rs:110-119: one linear move per point after the first
LinesSkipFirst(buffer) ==
    [i \in 1..(Len(buffer) - 1) |-> LinearInterpolation(buffer[i + 1])]

\* g_code.rs:57-123
flush_tokens(buffer) ==
    IF polygon_arc_enabled /\ Len(buffer) >= MinPoints /\ supports_circular_interpolation
    THEN FlushSegments(detect_polygon_arcs(buffer, PolygonArcTolerance, MinPoints), 1)
    ELSE LinesSkipFirst(buffer)

flush_line_buffer(s) ==
    IF s.line_buffer = <<>> THEN s
    ELSE [s EXCEPT !.program = @ \o flush_tokens(s.line_buffer), !.line_buffer = <<>>]

\* tool_on that leaves the pending flag set
tool_on_clears_nothing(s) ==
    LET s1 == IF s.pending_between_layers
              THEN Emit(s, <<BlankComment>> \o machine_between_layers)
              ELSE s
    IN  [Emit(s1, machine_tool_on \o machine_absolute) EXCEPT !.tool_state = "On"]

\* g_code.rs:181-192
tool_on(s) ==
    LET s1 == IF s.pending_between_layers
              THEN [Emit(s, <<BlankComment>> \o machine_between_layers)
                       EXCEPT !.pending_between_layers = FALSE]
              ELSE s
    IN  [Emit(s1, machine_tool_on \o machine_absolute) EXCEPT !.tool_state = "On"]

\* g_code.rs:194-197
tool_off(s) ==
    [Emit(s, machine_tool_off \o machine_absolute) EXCEPT !.tool_state = "Off"]

\* g_code.rs:201-207
begin(s) ==
    Emit(s, <<UnitsMillimeters>> \o machine_absolute \o machine_program_begin
            \o machine_absolute)

\* end that drops the buffered run
end_without_flush(s) ==
    [Emit(s, machine_tool_off \o machine_absolute \o machine_program_end)
        EXCEPT !.tool_state = "Off"]

\* g_code.rs:209-215
end(s) ==
    LET s1 == flush_line_buffer(s)
    IN  [Emit(s1, machine_tool_off \o machine_absolute \o machine_program_end)
            EXCEPT !.tool_state = "Off"]

\* g_code.rs:217-222
comment(s, text) == Emit(s, <<[t |-> "Comment", p |-> NoPoint, inner |-> text]>>)

\* between_layers that appends the sequence at the call
between_layers_emits_at_once(s) ==
    Emit(s, <<BlankComment>> \o machine_between_layers)

\* g_code.rs:224-227
between_layers(s) == [s EXCEPT !.pending_between_layers = TRUE]

\* move_to that does not turn the tool off
move_to_tool_left_on(s, to) ==
    LET s1 == flush_line_buffer(s)
    IN  [Emit(s1, <<RapidPositioning(to)>>) EXCEPT !.line_buffer = <<to>>]

\* move_to that discards the buffered run
move_to_dropping_buffer(s, to) ==
    LET s2 == tool_off(s)
        s3 == Emit(s2, <<RapidPositioning(to)>>)
    IN  [s3 EXCEPT !.line_buffer = <<to>>]

\* g_code.rs:229-239
move_to(s, to) ==
    LET s1 == flush_line_buffer(s)
        s2 == tool_off(s1)
        s3 == Emit(s2, <<RapidPositioning(to)>>)
    IN  [s3 EXCEPT !.line_buffer = <<to>>]

\* line_to whose cap never triggers
line_to_uncapped(s, to) ==
    LET s1 == tool_on(s)
    IN  IF polygon_arc_enabled
        THEN LET s2 == IF s1.line_buffer = <<>>
                       THEN [s1 EXCEPT !.line_buffer = <<to>>]
                       ELSE s1
             IN  [s2 EXCEPT !.line_buffer = Append(@, to)]
        ELSE Emit(s1, <<LinearInterpolation(to)>>)

\* line_to that pushes its point once onto an empty buffer
line_to_pushing_once(s, to) ==
    LET s1 == tool_on(s)
    IN  IF polygon_arc_enabled
        THEN LET s3 == [s1 EXCEPT !.line_buffer = Append(@, to)]
             IN  IF Len(s3.line_buffer) > MAX_BUFFER_SIZE
                 THEN [flush_line_buffer(s3) EXCEPT !.line_buffer = <<to>>]
                 ELSE s3
        ELSE Emit(s1, <<LinearInterpolation(to)>>)

\* g_code.rs:241-273
line_to(s, to) ==
    LET s1 == tool_on(s)
    IN  IF polygon_arc_enabled
        THEN LET s2 == IF s1.line_buffer = <<>>
                       THEN [s1 EXCEPT !.line_buffer = <<to>>]
                       ELSE s1
                 s3 == [s2 EXCEPT !.line_buffer = Append(@, to)]
             IN  IF Len(s3.line_buffer) > MAX_BUFFER_SIZE
                 THEN [flush_line_buffer(s3) EXCEPT !.line_buffer = <<to>>]
                 ELSE s3
        ELSE Emit(s1, <<LinearInterpolation(to)>>)

RECURSIVE LineToEach(_, _, _)
\* .for_each(|point| self.line_to(point)), g_code.rs:302-305 and 329-330
LineToEach(s, points, i) ==
    IF i > Len(points) THEN s
    ELSE LineToEach(line_to(s, points[i]), points, i + 1)

RECURSIVE EmitFlattened(_, _, _)
\* .for_each(|segment| match segment ..), g_code.rs:291-300 and 320-327
EmitFlattened(s, segments, i) ==
    IF i > Len(segments) THEN s
    ELSE LET segment == segments[i]
             s1 == IF segment.kind = "Arc"
                   THEN Emit(s, circular_interpolation(segment))
                   ELSE line_to(s, segment.to)
         IN  EmitFlattened(s1, segments, i + 1)

\* g_code.rs:275-307.  The curve c stands for an SvgArc together with what the
\* two flattenings return for it: c.segments is FlattenWithArcs::flattened,
\* c.points is lyon_geom's Arc::flattened.
arc(s, c) ==
    LET s1 == flush_line_buffer(s)
    IN  IF c.straight THEN line_to(s1, c.to)
        ELSE LET s2 == tool_on(s1)
             IN  IF supports_circular_interpolation
                 THEN EmitFlattened(s2, c.segments, 1)
                 ELSE LineToEach(s2, c.points, 1)

\* g_code.rs:309-332
cubic_bezier(s, c) ==
    LET s1 == flush_line_buffer(s)
        s2 == tool_on(s1)
    IN  IF supports_circular_interpolation
        THEN EmitFlattened(s2, c.segments, 1)
        ELSE LineToEach(s2, c.points, 1)

\* g_code.rs:334-336
quadratic_bezier(s, c) == cubic_bezier(s, c)

-----------------------------------------------------------------------------
(* The emission engine as a state machine: the caller (ConversionVisitor,   *)
(* converter/mod.rs:120-129 and 292-294) calls begin() once, then drawing    *)
(* operations, then end() once.                                              *)

MaxCalls == 3

P1 == <<5, 0>>
P2 == <<4, 3>>
P3 == <<3, 4>>
Points == {P1, P2, P3}

SvgArc(from, to, cxn, cyn, den, large_arc, sweep) ==
    [ok |-> TRUE, kind |-> "Arc", from |-> from, to |-> to,
     cxn |-> cxn, cyn |-> cyn, den |-> den,
     r2n |-> Sq(from[1] * den - cxn) + Sq(from[2] * den - cyn),
     large_arc |-> large_arc, sweep |-> sweep]

\* SvgArcs handed to arc(): a straight one, a half circle of radius 5 (emitted
\* as it is by the flattening, arc.rs:153-154) and a half circle of radius 1/2
ArcCurves ==
    { [straight |-> TRUE, to |-> P3,
       segments |-> <<LineSegment(P1, P3)>>, points |-> <<P3>>],
      [straight |-> FALSE, to |-> <<-5, 0>>,
       segments |-> <<SvgArc(P1, <<-5, 0>>, 0, 0, 1, FALSE, TRUE)>>,
       points |-> <<<<0, 5>>, <<-5, 0>>>>],
      [straight |-> FALSE, to |-> <<1, 0>>,
       segments |-> <<SvgArc(<<0, 0>>, <<1, 0>>, 1, 0, 2, FALSE, FALSE)>>,
       points |-> <<<<1, 0>>>>] }

\* Cubic Beziers handed to cubic_bezier(): one flattened to a line followed by
\* an arc, and a degenerate one (arc.rs:95-96)
CubicCurves ==
    { [straight |-> FALSE, to |-> P3,
       segments |-> <<LineSegment(P1, P2), SvgArc(P2, P3, 0, 0, 1, FALSE, TRUE)>>,
       points |-> <<P2, P3>>],
      [straight |-> FALSE, to |-> P1, segments |-> <<>>, points |-> <<P1>>] }

\* The quadratic Bezier handed to quadratic_bezier(): flattened to one arc
QuadraticCurves ==
    { [straight |-> FALSE, to |-> P3,
       segments |-> <<SvgArc(P1, P3, 0, 0, 1, FALSE, TRUE)>>,
       points |-> <<P2, P3>>] }

IdleCv == [pc |-> "idle"]
IdleFl == [pc |-> "idle"]
IdleDp == [pc |-> "idle"]
IdleUn == [pc |-> "idle"]
IdleSt == [pc |-> "idle"]
IdleCi == [pc |-> "idle"]
IdleRd == [pc |-> "idle"]
IdleTr == [pc |-> "idle"]

\* GCodeTurtle::new, g_code.rs:37-54
Init ==
    /\ program = <<>>
    /\ pending_between_layers = FALSE
    /\ line_buffer = <<>>
    /\ polygon_arc_enabled \in BOOLEAN
    /\ supports_circular_interpolation \in BOOLEAN
    /\ tool_state = "Off"
    /\ phase = "new"
    /\ ncalls = 0
    /\ last_call = "new"
    /\ prev = [len |-> 0, pending |-> FALSE, buffer |-> <<>>, tool |-> "Off"]
    /\ bl_calls = 0
    /\ bl_marks = 0
    /\ cv = IdleCv
    /\ fl = IdleFl
    /\ dp = IdleDp
    /\ un = IdleUn
    /\ st = IdleSt
    /\ ci = IdleCi
    /\ rd = IdleRd
    /\ tr = IdleTr

\* One Turtle call: the engine moves to state s, the history records the call.
Call(name, s) ==
    /\ program' = s.program
    /\ pending_between_layers' = s.pending_between_layers
    /\ line_buffer' = s.line_buffer
    /\ tool_state' = s.tool_state
    /\ last_call' = name
    /\ prev' = [len |-> Len(program), pending |-> pending_between_layers,
                buffer |-> line_buffer, tool |-> tool_state]
    /\ UNCHANGED <<polygon_arc_enabled, supports_circular_interpolation, cv, fl, dp, un, st, ci, rd, tr>>

Drawing == phase = "running" /\ ncalls < MaxCalls

Begin ==
    /\ phase = "new"
    /\ Call("begin", begin(St))
    /\ phase' = "running"
    /\ UNCHANGED <<ncalls, bl_calls, bl_marks>>

End ==
    /\ phase = "running"
    /\ Call("end", end(St))
    /\ phase' = "ended"
    /\ UNCHANGED <<ncalls, bl_calls, bl_marks>>

Comment ==
    /\ Drawing
    /\ Call("comment", comment(St, "svg"))
    /\ ncalls' = ncalls + 1
    /\ UNCHANGED <<phase, bl_calls, bl_marks>>

BetweenLayers ==
    /\ Drawing
    /\ Call("between_layers", between_layers(St))
    /\ ncalls' = ncalls + 1
    /\ bl_calls' = bl_calls + 1
    /\ bl_marks' = IF pending_between_layers THEN bl_marks ELSE bl_marks + 1
    /\ UNCHANGED phase

MoveTo ==
    /\ Drawing
    /\ \E to \in Points : Call("move_to", move_to(St, to))
    /\ ncalls' = ncalls + 1
    /\ UNCHANGED <<phase, bl_calls, bl_marks>>

LineTo ==
    /\ Drawing
    /\ \E to \in Points : Call("line_to", line_to(St, to))
    /\ ncalls' = ncalls + 1
    /\ UNCHANGED <<phase, bl_calls, bl_marks>>

ArcTo ==
    /\ Drawing
    /\ \E c \in ArcCurves : Call("arc", arc(St, c))
    /\ ncalls' = ncalls + 1
    /\ UNCHANGED <<phase, bl_calls, bl_marks>>

CubicBezier ==
    /\ Drawing
    /\ \E c \in CubicCurves : Call("cubic_bezier", cubic_bezier(St, c))
    /\ ncalls' = ncalls + 1
    /\ UNCHANGED <<phase, bl_calls, bl_marks>>

QuadraticBezier ==
    /\ Drawing
    /\ \E c \in QuadraticCurves : Call("quadratic_bezier", quadratic_bezier(St, c))
    /\ ncalls' = ncalls + 1
    /\ UNCHANGED <<phase, bl_calls, bl_marks>>

Next ==
    \/ Begin
    \/ End
    \/ Comment
    \/ BetweenLayers
    \/ MoveTo
    \/ LineTo
    \/ ArcTo
    \/ CubicBezier
    \/ QuadraticBezier

Spec == Init /\ [][Next]_vars

-----------------------------------------------------------------------------
(* Properties of the emission engine *)

CuttingKinds == {"LinearInterpolation", "ClockwiseCircularInterpolation",
                 "CounterclockwiseCircularInterpolation"}
CircularKinds == {"ClockwiseCircularInterpolation",
                  "CounterclockwiseCircularInterpolation"}

\* the tokens the last call appended
Appended == SubSeq(program, prev.len + 1, Len(program))

CountOf(kind) == Cardinality({i \in 1..Len(program) : program[i].t = kind})

RECURSIVE MatchSteps(_, _, _, _, _)
\* at most `steps` steps of matching a[i..] greedily into b[j..]
MatchSteps(a, b, i, j, steps) ==
    IF steps = 0 \/ i > Len(a) \/ j > Len(b) THEN <<i, j>>
    ELSE IF a[i] = b[j] THEN MatchSteps(a, b, i + 1, j + 1, steps - 1)
    ELSE MatchSteps(a, b, i, j + 1, steps - 1)

RECURSIVE MatchFrom(_, _, _, _)
MatchFrom(a, b, i, j) ==
    IF i > Len(a) THEN TRUE
    ELSE IF j > Len(b) THEN FALSE
    ELSE LET group == MatchSteps(a, b, i, j, 32)
         IN  MatchFrom(a, b, group[1], group[2])

\* a is b with some elements left out
IsSubsequence(a, b) == MatchFrom(a, b, 1, 1)

\* C1: every cutting move in the program comes after a tool-on sequence with
\* no tool-off sequence between the two, and every rapid move comes directly
\* after the tool-off sequence (and the absolute-mode directive that tool_off
\* appends with it), with polygon-arc re-detection on or off.
C1_MovesFollowToolState ==
    \A i \in 1..Len(program) :
        /\ program[i].t \in CuttingKinds =>
               \E j \in 1..(i - 1) :
                   /\ program[j].t = "ToolOnSequence"
                   /\ \A k \in (j + 1)..(i - 1) : program[k].t # "ToolOffSequence"
        /\ program[i].t = "RapidPositioning" =>
               /\ i > 2
               /\ program[i - 2].t = "ToolOffSequence"
               /\ program[i - 1].t = "AbsoluteDistanceMode"

\* a buffered run flushed as a circular move just before a travel move
C1_Witness ==
    /\ polygon_arc_enabled
    /\ \E i \in 1..Len(program) :
           /\ program[i].t \in CircularKinds
           /\ i + 3 <= Len(program)
           /\ program[i + 1].t = "ToolOffSequence"
           /\ program[i + 3].t = "RapidPositioning"

\* C2 as stated: once the program has ended, the between-layers sequence
\* occurs once for each between_layers() call.
C2_OncePerCall ==
    phase = "ended" => CountOf("BetweenLayersSequence") = bl_calls

\* C2, amended: the between-layers sequence is appended at most once per
\* between_layers() call, and exactly once for each call that finds no boundary
\* pending, unless no tool activation follows it (the boundary is then still
\* pending).
C2_OncePerPendingBoundary ==
    /\ CountOf("BetweenLayersSequence") <= bl_calls
    /\ CountOf("BetweenLayersSequence")
           + (IF pending_between_layers THEN 1 ELSE 0) = bl_marks

\* two between_layers() calls in a row realised by one sequence
C2_Witness ==
    /\ bl_calls = 2
    /\ CountOf("BetweenLayersSequence") = 1
    /\ ~pending_between_layers

\* C3: between_layers() appends nothing and only sets the flag; every
\* between-layers sequence in the program has a blank comment right before it
\* and the tool-on sequence right after it; a move_to issued while the boundary
\* is pending appends no between-layers sequence and leaves it pending; the
\* flag is false after a call that appended the sequence.
C3_DeferredBetweenLayers ==
    /\ last_call = "between_layers" =>
           /\ Appended = <<>>
           /\ pending_between_layers
           /\ line_buffer = prev.buffer
           /\ tool_state = prev.tool
    /\ \A i \in 1..Len(program) :
           program[i].t = "BetweenLayersSequence" =>
               /\ i > 1
               /\ program[i - 1] = BlankComment
               /\ i < Len(program)
               /\ program[i + 1].t = "ToolOnSequence"
    /\ (last_call = "move_to" /\ prev.pending) =>
           /\ pending_between_layers
           /\ \A i \in 1..Len(Appended) : Appended[i].t # "BetweenLayersSequence"
    /\ (\E i \in 1..Len(Appended) : Appended[i].t = "BetweenLayersSequence") =>
           ~pending_between_layers

\* a boundary realised after the travel move that followed between_layers()
C3_Witness ==
    \E i \in 4..Len(program) :
        /\ program[i].t = "BetweenLayersSequence"
        /\ program[i - 2].t = "RapidPositioning"
        /\ ~pending_between_layers
        /\ bl_calls = 1

\* C10: begin() appends the millimetre directive, the absolute-mode directive
\* and the begin sequence, in this order; end() appends the motion of the
\* buffered run (cutting moves through points of the buffer after its first,
\* in order, ending at the last one; one move per point when no arc is
\* detected), then the tool-off sequence, then the end sequence, and leaves
\* line_buffer empty.
C10_Lifecycle ==
    /\ last_call = "begin" =>
           /\ Len(Appended) >= 3
           /\ Appended[1] = UnitsMillimeters
           /\ Appended[2].t = "AbsoluteDistanceMode"
           /\ Appended[3].t = "ProgramBeginSequence"
    /\ last_call = "end" =>
           /\ line_buffer = <<>>
           /\ Len(Appended) >= 3
           /\ LET n == Len(Appended) - 3
                  motion == SubSeq(Appended, 1, n)
                  targets == [i \in 1..n |-> motion[i].p]
                  rest == IF prev.buffer = <<>> THEN <<>> ELSE Tail(prev.buffer)
              IN  /\ Appended[n + 1].t = "ToolOffSequence"
                  /\ Appended[n + 2].t = "AbsoluteDistanceMode"
                  /\ Appended[n + 3].t = "ProgramEndSequence"
                  /\ \A i \in 1..n : motion[i].t \in CuttingKinds
                  /\ IsSubsequence(targets, rest)
                  /\ (rest # <<>>) => (n > 0 /\ targets[n] = rest[Len(rest)])
                  /\ (\A i \in 1..n : motion[i].t = "LinearInterpolation")
                         => targets = rest

\* end() with a buffered run of three points, flushed as a circular move
C10_Witness ==
    /\ last_call = "end"
    /\ Len(prev.buffer) >= 3
    /\ \E i \in 1..Len(Appended) : Appended[i].t \in CircularKinds

-----------------------------------------------------------------------------
(* The converter, converter/mod.rs.  Lengths are exact rationals <<n, d>>    *)
(* with d > 0 in lowest terms, standing for the f64 values of the code.      *)

RNorm(n, d, g) == IF d < 0 THEN <<(-n) \div g, (-d) \div g>> ELSE <<n \div g, d \div g>>
Rat(n, d) == RNorm(n, d, Gcd(n, d))
RInt(n) == <<n, 1>>
RMulReduced(a, b, g1, g2) ==
    <<(a[1] \div g1) * (b[1] \div g2), (a[2] \div g2) * (b[2] \div g1)>>
RMul(a, b) ==
    IF a[1] = 0 \/ b[1] = 0 THEN <<0, 1>>
    ELSE RMulReduced(a, b, Gcd(a[1], b[2]), Gcd(b[1], a[2]))
RInv(a) == IF a[1] < 0 THEN <<-a[2], -a[1]>> ELSE <<a[2], a[1]>>
RDiv(a, b) == RMul(a, RInv(b))
RAddOver(a, b, g) ==
    Rat(a[1] * (b[2] \div g) + b[1] * (a[2] \div g), (a[2] \div g) * b[2])
RAdd(a, b) == RAddOver(a, b, Gcd(a[2], b[2]))
RNeg(a) == <<-a[1], a[2]>>
RSub(a, b) == RAdd(a, RNeg(b))
RLess(a, b) == RSub(a, b)[1] < 0
RLeq(a, b) == RSub(a, b)[1] <= 0
RMin(a, b) == IF RLess(b, a) THEN b ELSE a
RZero == RInt(0)
ROne == RInt(1)

\* Option<T>: None is the empty sequence, Some(x) a sequence of one element
NoValue == <<>>
Some(x) == <<x>>
IsSome(o) == o # <<>>
Unwrap(o) == o[1]

\* units.rs:13, the CSS reference resolution used by mod.rs:165
CSS_DEFAULT_DPI == 96

\* UomLength::new::<inch>(v / dpi).get::<millimeter>(): 25.4 mm per inch
InchToMm(v, dpi) == RMul(v, Rat(127, 5 * dpi))
\* UomLength::new::<millimeter>(d).get::<inch>() * dpi
MmToUserUnits(d, dpi) == RMul(d, Rat(5 * dpi, 127))

\* Transform2D (euclid) restricted to a uniform scale and a translation:
\* the point p is taken to s * p + t.
Translation(x, y) == [s |-> ROne, tx |-> x, ty |-> y]
Scale(k) == [s |-> k, tx |-> RZero, ty |-> RZero]
Identity == Scale(ROne)
\* a.then(b): b's transformation applies after a's
Then(a, b) == [s |-> RMul(a.s, b.s),
               tx |-> RAdd(RMul(b.s, a.tx), b.tx),
               ty |-> RAdd(RMul(b.s, a.ty), b.ty)]
TransformPoint(t, p) == <<RAdd(RMul(t.s, p[1]), t.tx), RAdd(RMul(t.s, p[2]), t.ty)>>

\* Box2D
Box(min, max) == [min |-> min, max |-> max]
Width(b) == RSub(b.max[1], b.min[1])
Height(b) == RSub(b.max[2], b.min[2])

\* A conversion request: the document as the traversal hands it to the turtle
\* (the bounding box of its geometry in user units, after the transforms of
\* the traversal that put the origin at the bottom left, and the sizes of
\* its nested viewports, outermost first), the ConversionConfig and the
\* ConversionOptions.
\* DpiConvertingTurtle (turtle/mod.rs), as mod.rs:171-174 mirrors it: a
\* coordinate in user units reaches the inner turtle in millimetres.
DpiConvertingTurtle(p, dpi) == <<InchToMm(p[1], dpi), InchToMm(p[2], dpi)>>

\* The traversal and the viewport stack (section 4.2 of the specification):
\* entering an element that establishes a viewport pushes its size, leaving
\* it pops what was pushed.
visit_enter(viewport_dim_stack, viewport) == Append(viewport_dim_stack, viewport)
\* a traversal that leaves its viewports on the stack
visit_exit_keeping_viewport(viewport_dim_stack) == viewport_dim_stack

visit_exit(viewport_dim_stack) == SubSeq(viewport_dim_stack, 1, Len(viewport_dim_stack) - 1)

RECURSIVE depth_first_visit(_, _, _)
\* the elements from the i-th on, each one inside the one before it
depth_first_visit(viewport_dim_stack, viewports, i) ==
    IF i > Len(viewports) THEN viewport_dim_stack
    ELSE visit_exit(depth_first_visit(visit_enter(viewport_dim_stack, viewports[i]),
                                      viewports, i + 1))

\* mod.rs:158: viewport_dim_stack.last().copied().unwrap_or([1.0, 1.0])
last_viewport_or_unit(viewport_dim_stack) ==
    IF viewport_dim_stack = <<>> THEN <<ROne, ROne>>
    ELSE viewport_dim_stack[Len(viewport_dim_stack)]

\* mod.rs:139-160, the pre-pass: the bounding box in mm and the viewport,
\* read when the traversal has returned
bounding_box_and_viewport_generator(in) ==
    [bbox |-> Box(DpiConvertingTurtle(in.doc.bbox.min, in.dpi),
                  DpiConvertingTurtle(in.doc.bbox.max, in.dpi)),
     viewport |-> last_viewport_or_unit(depth_first_visit(<<>>, in.doc.viewports, 1))]

\* mod.rs:163-165
origin_in_user_units(origin) ==
    [i \in 1..2 |-> IF IsSome(origin[i])
                    THEN Some(MmToUserUnits(Unwrap(origin[i]), CSS_DEFAULT_DPI))
                    ELSE NoValue]

\* mod.rs:171-174
viewport_to_mm(viewport_user_units, dpi) ==
    [i \in 1..2 |-> InchToMm(viewport_user_units[i], dpi)]

\* mod.rs:176-190
origin_transform(origin, pre_bbox_mm) ==
    Translation(IF IsSome(origin[1]) THEN RSub(Unwrap(origin[1]), pre_bbox_mm.min[1])
                ELSE RZero,
                IF IsSome(origin[2]) THEN RSub(Unwrap(origin[2]), pre_bbox_mm.min[2])
                ELSE RZero)

\* mod.rs:201-207, for the units Mm, Cm and Px
LengthToMm(l, dpi) ==
    CASE l.unit = "Mm" -> l.number
      [] l.unit = "Cm" -> RMul(l.number, RInt(10))
      [] l.unit = "Px" -> InchToMm(l.number, dpi)

\* mod.rs:197-208
target_mm(dimensions, dpi) ==
    [i \in 1..2 |-> IF IsSome(dimensions[i])
                    THEN Some(LengthToMm(Unwrap(dimensions[i]), dpi))
                    ELSE NoValue]

\* trim_scale that scales only when both target dimensions are given
trim_scale_needing_both(target, bbox_w, bbox_h) ==
    IF IsSome(target[1]) /\ IsSome(target[2]) /\ RLess(RZero, bbox_w) /\ RLess(RZero, bbox_h)
    THEN RMin(RDiv(Unwrap(target[1]), bbox_w), RDiv(Unwrap(target[2]), bbox_h))
    ELSE ROne

\* mod.rs:213-222
trim_scale(target, bbox_w, bbox_h) ==
    IF IsSome(target[1]) /\ IsSome(target[2]) /\ RLess(RZero, bbox_w) /\ RLess(RZero, bbox_h)
    THEN RMin(RDiv(Unwrap(target[1]), bbox_w), RDiv(Unwrap(target[2]), bbox_h))
    ELSE IF IsSome(target[1]) /\ ~IsSome(target[2]) /\ RLess(RZero, bbox_w)
    THEN RDiv(Unwrap(target[1]), bbox_w)
    ELSE IF ~IsSome(target[1]) /\ IsSome(target[2]) /\ RLess(RZero, bbox_h)
    THEN RDiv(Unwrap(target[2]), bbox_h)
    ELSE ROne

\* mod.rs:225-228
scaled_bbox(bbox, scale) ==
    Box(<<RMul(bbox.min[1], scale), RMul(bbox.min[2], scale)>>,
        <<RMul(bbox.max[1], scale), RMul(bbox.max[2], scale)>>)

\* mod.rs:232-241
container_size(trim, target, bbox, viewport_mm) ==
    IF trim
    THEN <<IF IsSome(target[1]) THEN Unwrap(target[1]) ELSE Width(bbox),
           IF IsSome(target[2]) THEN Unwrap(target[2]) ELSE Height(bbox)>>
    ELSE viewport_mm

\* mod.rs:244-248
dx_mm(h_align, bbox, container_w) ==
    CASE h_align = "Left" -> RNeg(bbox.min[1])
      [] h_align = "Center" ->
             RSub(RDiv(RSub(container_w, Width(bbox)), RInt(2)), bbox.min[1])
      [] h_align = "Right" -> RSub(RSub(container_w, Width(bbox)), bbox.min[1])

\* mod.rs:250-254
dy_mm(v_align, bbox, container_h) ==
    CASE v_align = "Bottom" -> RNeg(bbox.min[2])
      [] v_align = "Center" ->
             RSub(RDiv(RSub(container_h, Height(bbox)), RInt(2)), bbox.min[2])
      [] v_align = "Top" -> RSub(RSub(container_h, Height(bbox)), bbox.min[2])

\* mod.rs:256
mm_per_user_unit(dpi) == InchToMm(ROne, dpi)

\* mod.rs:257-259: the alignment translation, composed with post_transform
alignment_then(options, dpi, bbox, container, post_transform) ==
    Then(Translation(RDiv(dx_mm(options.h_align, bbox, container[1]), mm_per_user_unit(dpi)),
                     RDiv(dy_mm(options.v_align, bbox, container[2]), mm_per_user_unit(dpi))),
         post_transform)

\* mod.rs:210-259, with the scale of the trim decided
alignment_with_scale(options, dpi, pre_bbox_mm, viewport_mm, target, scale) ==
    IF options.trim
    THEN alignment_then(options, dpi, scaled_bbox(pre_bbox_mm, scale),
                        container_size(TRUE, target, scaled_bbox(pre_bbox_mm, scale),
                                       viewport_mm),
                        Then(Scale(scale), Identity))
    ELSE alignment_then(options, dpi, pre_bbox_mm,
                        container_size(FALSE, target, pre_bbox_mm, viewport_mm),
                        Identity)

\* an alignment request that does not depend on the options
alignment_requested_always(options) == TRUE

\* mod.rs:195 and 281
alignment_requested(options) ==
    options.trim \/ IsSome(options.dimensions[1]) \/ IsSome(options.dimensions[2])

\* mod.rs:193-260
post_transform(in, pre_bbox_mm, viewport_mm) ==
    IF alignment_requested(in.options)
    THEN alignment_with_scale(in.options, in.dpi, pre_bbox_mm, viewport_mm,
                              target_mm(in.options.dimensions, in.dpi),
                              trim_scale(target_mm(in.options.dimensions, in.dpi),
                                         Width(pre_bbox_mm), Height(pre_bbox_mm)))
    ELSE Identity

\* an origin that is applied whatever was requested
apply_origin_always(in) == TRUE

\* mod.rs:282-283
apply_origin(in) ==
    \/ (in.origin # <<Some(RZero), Some(RZero)>> /\ alignment_requested(in.options))
    \/ ~alignment_requested(in.options)

\* mod.rs:284-288
combined_transform(in, post, origin_tf) ==
    IF apply_origin(in) THEN Then(post, origin_tf) ELSE post

\* Terrarium and DpiConvertingTurtle (turtle/mod.rs) in the second pass: a
\* point of the traversal goes through the pushed transform, then to mm.
second_pass_point(in, combined, p) == DpiConvertingTurtle(TransformPoint(combined, p), in.dpi)

\* mod.rs:162-288: the transform pushed before the second pass
ComposedFor(in, pre) ==
    combined_transform(in,
                       post_transform(in, pre.bbox, viewport_to_mm(pre.viewport, in.dpi)),
                       origin_transform(origin_in_user_units(in.origin), pre.bbox))

\* mod.rs:289-297: the extent of the program the second pass returns
OutputBox(in, combined) ==
    Box(second_pass_point(in, combined, in.doc.bbox.min),
        second_pass_point(in, combined, in.doc.bbox.max))

\* mod.rs:133-298, from the request to the extent of the program
svg2program(in) == OutputBox(in, ComposedFor(in, bounding_box_and_viewport_generator(in)))

-----------------------------------------------------------------------------
(* svg2program as a state machine: pre-pass, transform, second pass.         *)

RPoint(x, y) == <<RInt(x), RInt(y)>>
Millimetres(n) == [number |-> RInt(n), unit |-> "Mm"]
Centimetres(n) == [number |-> RInt(n), unit |-> "Cm"]

\* a 10 x 10 square at the origin, a 20 x 10 rectangle away from it inside a
\* nested viewport, and the square in a document that establishes no viewport
Square10 ==
    [bbox |-> Box(RPoint(0, 0), RPoint(10, 10)), viewports |-> <<<<RInt(10), RInt(10)>>>>]
Rect20x10 ==
    [bbox |-> Box(RPoint(2, 3), RPoint(22, 13)),
     viewports |-> <<<<RInt(40), RInt(40)>>, <<RInt(30), RInt(20)>>>>]
SquareBare == [bbox |-> Box(RPoint(0, 0), RPoint(10, 10)), viewports |-> <<>>]
Documents == {Square10, Rect20x10, SquareBare}
Dpis == {96, 127}
DefaultOrigin == <<Some(RZero), Some(RZero)>>
Origins == {DefaultOrigin, <<NoValue, NoValue>>,
            <<Some(RInt(10)), NoValue>>, <<NoValue, Some(RInt(5))>>}
DimensionChoices == {<<NoValue, NoValue>>,
                     <<Some(Millimetres(100)), Some(Millimetres(50))>>,
                     <<Some(Millimetres(80)), NoValue>>,
                     <<NoValue, Some(Centimetres(6))>>}
AllRequests ==
    [doc : Documents, dpi : Dpis, origin : Origins,
     options : [dimensions : DimensionChoices,
                h_align : {"Left", "Center", "Right"},
                v_align : {"Bottom", "Center", "Top"},
                trim : BOOLEAN]]
\* A configured non-zero origin is combined with an alignment only at 127 dpi
\* (5 user units per mm), which keeps the exact fractions small.
Requests ==
    {r \in AllRequests :
         (r.origin \notin {DefaultOrigin, <<NoValue, NoValue>>}
              /\ (r.options.trim \/ r.options.dimensions # <<NoValue, NoValue>>))
         => r.dpi = 127}

\* the G-code turtle when another component is under study
TurtleIdle ==
    /\ program = <<>>
    /\ pending_between_layers = FALSE
    /\ line_buffer = <<>>
    /\ polygon_arc_enabled = FALSE
    /\ supports_circular_interpolation = FALSE
    /\ tool_state = "Off"
    /\ phase = "idle"
    /\ ncalls = 0
    /\ last_call = "new"
    /\ prev = [len |-> 0, pending |-> FALSE, buffer |-> <<>>, tool |-> "Off"]
    /\ bl_calls = 0
    /\ bl_marks = 0

InitConverter ==
    /\ TurtleIdle
    /\ fl = IdleFl
    /\ dp = IdleDp
    /\ un = IdleUn
    /\ st = IdleSt
    /\ ci = IdleCi
    /\ rd = IdleRd
    /\ tr = IdleTr
    /\ \E in \in Requests :
           cv = [pc |-> "start", in |-> in, pre |-> NoValue,
                 combined |-> NoValue, out |-> NoValue]

\* mod.rs:168
PrePass ==
    /\ cv.pc = "start"
    /\ cv' = [cv EXCEPT !.pc = "prepass",
                        !.pre = bounding_box_and_viewport_generator(cv.in)]
    /\ UNCHANGED <<turtleVars, fl, dp, un, st, ci, rd, tr>>

\* mod.rs:162-165 and 170-288
ComposeTransform ==
    /\ cv.pc = "prepass"
    /\ cv' = [cv EXCEPT
                !.pc = "transform",
                !.combined = ComposedFor(cv.in, cv.pre)]
    /\ UNCHANGED <<turtleVars, fl, dp, un, st, ci, rd, tr>>

\* mod.rs:264-297
SecondPass ==
    /\ cv.pc = "transform"
    /\ cv' = [cv EXCEPT
                !.pc = "done",
                !.out = OutputBox(cv.in, cv.combined)]
    /\ UNCHANGED <<turtleVars, fl, dp, un, st, ci, rd, tr>>

NextConverter ==
    \/ PrePass
    \/ ComposeTransform
    \/ SecondPass

SpecConverter == InitConverter /\ [][NextConverter]_vars

-----------------------------------------------------------------------------
(* Properties of the converter *)

Converted == cv.pc = "done"
\* the origin transform is skipped or the identity
OriginNeutral == cv.in.origin \in {DefaultOrigin, <<NoValue, NoValue>>}
TargetW == Unwrap(target_mm(cv.in.options.dimensions, cv.in.dpi)[1])
TargetH == Unwrap(target_mm(cv.in.options.dimensions, cv.in.dpi)[2])
BothTargets ==
    IsSome(cv.in.options.dimensions[1]) /\ IsSome(cv.in.options.dimensions[2])
WidthOnly ==
    IsSome(cv.in.options.dimensions[1]) /\ ~IsSome(cv.in.options.dimensions[2])
HeightOnly ==
    ~IsSome(cv.in.options.dimensions[1]) /\ IsSome(cv.in.options.dimensions[2])

\* the output box has the size of the pre-pass box scaled by k
ScaledBy(k) ==
    /\ Width(cv.out) = RMul(k, Width(cv.pre.bbox))
    /\ Height(cv.out) = RMul(k, Height(cv.pre.bbox))

\* the output box lies in [0, w] x [0, h], anchored by the alignment
AnchoredIn(w, h) ==
    /\ RLeq(RZero, cv.out.min[1]) /\ RLeq(cv.out.max[1], w)
    /\ RLeq(RZero, cv.out.min[2]) /\ RLeq(cv.out.max[2], h)
    /\ cv.in.options.h_align = "Left" => cv.out.min[1] = RZero
    /\ cv.in.options.h_align = "Center" => RAdd(cv.out.min[1], cv.out.max[1]) = w
    /\ cv.in.options.h_align = "Right" => cv.out.max[1] = w
    /\ cv.in.options.v_align = "Bottom" => cv.out.min[2] = RZero
    /\ cv.in.options.v_align = "Center" => RAdd(cv.out.min[2], cv.out.max[2]) = h
    /\ cv.in.options.v_align = "Top" => cv.out.max[2] = h

\* C4: with trim and both target dimensions W and H, the output is the
\* pre-pass bounding box scaled by min(W/bbox_w, H/bbox_h), lies inside
\* [0,W] x [0,H] and is anchored by the alignment; the 10 x 10 square trimmed
\* into 100 x 50 comes out as [25,75] x [0,50] for Center/Top and as
\* [50,100] x [0,50] for Right/Bottom.
C4_TrimBothDimensions ==
    (Converted /\ OriginNeutral /\ cv.in.options.trim /\ BothTargets) =>
        /\ ScaledBy(RMin(RDiv(TargetW, Width(cv.pre.bbox)),
                         RDiv(TargetH, Height(cv.pre.bbox))))
        /\ AnchoredIn(TargetW, TargetH)
        /\ (cv.in.doc = Square10 /\ cv.in.options.h_align = "Center"
                /\ cv.in.options.v_align = "Top")
               => cv.out = Box(RPoint(25, 0), RPoint(75, 50))
        /\ (cv.in.doc = Square10 /\ cv.in.options.h_align = "Right"
                /\ cv.in.options.v_align = "Bottom")
               => cv.out = Box(RPoint(50, 0), RPoint(100, 50))

\* the container of the alignment, as svg2program computes it for a trim with
\* scale k (mod.rs:225-241)
TrimContainer(k) ==
    container_size(TRUE, target_mm(cv.in.options.dimensions, cv.in.dpi),
                   scaled_bbox(cv.pre.bbox, k),
                   viewport_to_mm(cv.pre.viewport, cv.in.dpi))

\* C5: with trim and one target dimension, the output is the pre-pass box
\* scaled uniformly by that target over the matching bounding-box dimension
\* (so its aspect ratio is kept), and the missing container dimension is the
\* scaled bounding-box size; the 10 x 10 square trimmed to width 80, Left/Top,
\* comes out as [0,80] x [0,80].
C5_TrimOneDimension ==
    /\ (Converted /\ cv.in.options.trim /\ WidthOnly) =>
           /\ ScaledBy(RDiv(TargetW, Width(cv.pre.bbox)))
           /\ RMul(Width(cv.out), Height(cv.pre.bbox))
                  = RMul(Height(cv.out), Width(cv.pre.bbox))
           /\ TrimContainer(RDiv(TargetW, Width(cv.pre.bbox)))
                  = <<TargetW, RMul(RDiv(TargetW, Width(cv.pre.bbox)), Height(cv.pre.bbox))>>
           /\ (OriginNeutral /\ cv.in.doc = Square10 /\ cv.in.options.h_align = "Left"
                   /\ cv.in.options.v_align = "Top")
                  => cv.out = Box(RPoint(0, 0), RPoint(80, 80))
    /\ (Converted /\ cv.in.options.trim /\ HeightOnly) =>
           /\ ScaledBy(RDiv(TargetH, Height(cv.pre.bbox)))
           /\ RMul(Width(cv.out), Height(cv.pre.bbox))
                  = RMul(Height(cv.out), Width(cv.pre.bbox))
           /\ TrimContainer(RDiv(TargetH, Height(cv.pre.bbox)))
                  = <<RMul(RDiv(TargetH, Height(cv.pre.bbox)), Width(cv.pre.bbox)), TargetH>>

\* the square of the example, trimmed to width 80 with Left/Top alignment
C5_Witness ==
    /\ Converted
    /\ cv.in.doc = Square10
    /\ cv.in.options.trim /\ WidthOnly
    /\ cv.in.origin = DefaultOrigin
    /\ cv.in.options.h_align = "Left" /\ cv.in.options.v_align = "Top"
    /\ cv.out = Box(RPoint(0, 0), RPoint(80, 80))

\* C6: when only the origin transform is applied, the minimum of the
\* bounding box comes out at the configured offset (in mm) on each axis that
\* has one, at every DPI, and an axis without an offset is not moved.
C6_OriginPlacesMinimum ==
    (Converted /\ ~alignment_requested(cv.in.options)) =>
        \A i \in 1..2 :
            IF IsSome(cv.in.origin[i])
            THEN cv.out.min[i] = Unwrap(cv.in.origin[i])
            ELSE cv.out.min[i] = cv.pre.bbox.min[i]

NoDimensions == cv.in.options.dimensions = <<NoValue, NoValue>>
WithAlignment(in, h, v) == [in EXCEPT !.options.h_align = h, !.options.v_align = v]

\* C11: when trim is false and no override dimension is given, no alignment
\* transform is applied: the transform pushed and the output are the same for
\* every choice of h_align and v_align, the document and configuration being
\* the same.
C11_AlignmentIgnoredWithoutRequest ==
    (Converted /\ ~cv.in.options.trim /\ NoDimensions) =>
        \A h \in {"Left", "Center", "Right"}, v \in {"Bottom", "Center", "Top"} :
            /\ ComposedFor(WithAlignment(cv.in, h, v), cv.pre) = cv.combined
            /\ svg2program(WithAlignment(cv.in, h, v)) = cv.out

\* a rectangle away from the origin converted with Right/Bottom and no
\* alignment request, at a configured origin
C11_Witness ==
    /\ Converted
    /\ ~cv.in.options.trim /\ NoDimensions
    /\ cv.in.doc = Rect20x10
    /\ cv.in.origin = <<Some(RInt(10)), NoValue>>
    /\ cv.in.options.h_align = "Right" /\ cv.in.options.v_align = "Bottom"
    /\ svg2program(WithAlignment(cv.in, "Left", "Top")) = cv.out

\* C12: with trim set and no override dimension, trim has no effect: for
\* every document, origin and alignment the output is the output the same
\* request gives with trim cleared.
C12_TrimAloneHasNoEffect ==
    (Converted /\ cv.in.options.trim /\ NoDimensions) =>
        cv.out = svg2program([cv.in EXCEPT !.options.trim = FALSE])

-----------------------------------------------------------------------------
(* Flattening of a cubic Bezier, arc.rs:94-138, on control points with       *)
(* integer coordinates and a rational tolerance <<numerator, denominator>>.  *)

GridMax == 2
Grid == {<<x, y>> : x \in 0..GridMax, y \in 0..GridMax}
Tolerances == {<<1, 2>>, <<1, 1>>}

\* c^2 / |baseline|^2 * factor^2 <= tolerance^2 for factor = f[1]/f[2]; with a
\* baseline of length 0 the quotient is NaN and the comparison false
WithinFactor(c, len2, f, tolerance) ==
    /\ len2 # 0
    /\ Sq(c) * Sq(f[1]) * Sq(tolerance[2]) <= Sq(tolerance[1]) * Sq(f[2]) * len2

\* CubicBezierSegment::is_linear (lyon_geom), called at arc.rs:97 and 106
is_linear_crosses(c1, c2, len2, tolerance) ==
    /\ WithinFactor(c1, len2, IF c1 * c2 > 0 THEN <<3, 4>> ELSE <<4, 9>>, tolerance)
    /\ WithinFactor(c2, len2, IF c1 * c2 > 0 THEN <<3, 4>> ELSE <<4, 9>>, tolerance)

is_linear(cbs, tolerance) ==
    is_linear_crosses(Cross(Sub(cbs.to, cbs.from), Sub(cbs.ctrl1, cbs.from)),
                      Cross(Sub(cbs.to, cbs.from), Sub(cbs.ctrl2, cbs.from)),
                      SquareLength(Sub(cbs.to, cbs.from)), tolerance)

\* arc.rs:100-137: the segments fitted to the monotonic ranges of a curve
\* that is neither degenerate nor linear; their geometry is left open.
MonotonicRanges(cbs) == <<[kind |-> "Fitted", from |-> cbs.from, to |-> cbs.to]>>

\* flattened without the is_linear branch
flattened_skipping_linear(cbs, tolerance) ==
    IF SquareLength(Sub(cbs.to, cbs.from)) = 0 THEN <<>>
    ELSE MonotonicRanges(cbs)

\* arc.rs:94-138.  square_length() < EPSILON is from = to on integers.
flattened(cbs, tolerance) ==
    IF SquareLength(Sub(cbs.to, cbs.from)) = 0 THEN <<>>
    ELSE IF is_linear(cbs, tolerance) THEN <<LineSegment(cbs.from, cbs.to)>>
    ELSE MonotonicRanges(cbs)

InitFlatten ==
    /\ TurtleIdle
    /\ cv = IdleCv
    /\ dp = IdleDp
    /\ un = IdleUn
    /\ st = IdleSt
    /\ ci = IdleCi
    /\ rd = IdleRd
    /\ tr = IdleTr
    /\ \E cbs \in [from : Grid, ctrl1 : Grid, ctrl2 : Grid, to : Grid],
          tolerance \in Tolerances :
           fl = [pc |-> "start", cbs |-> cbs, tolerance |-> tolerance, result |-> <<>>]

Flatten ==
    /\ fl.pc = "start"
    /\ fl' = [fl EXCEPT !.pc = "done", !.result = flattened(fl.cbs, fl.tolerance)]
    /\ UNCHANGED <<turtleVars, cv, dp, un, st, ci, rd, tr>>

NextFlatten == Flatten

SpecFlatten == InitFlatten /\ [][NextFlatten]_vars

\* the distance from p to the line through from and to is at most tolerance
NearBaseline(p, cbs, tolerance) ==
    Sq(Cross(Sub(cbs.to, cbs.from), Sub(p, cbs.from))) * Sq(tolerance[2])
        <= Sq(tolerance[1]) * SquareLength(Sub(cbs.to, cbs.from))

\* C8: a cubic Bezier whose end points coincide flattens to the empty
\* sequence; one with distinct end points whose control points lie within the
\* tolerance of the line through the end points flattens to exactly one Line
\* from its start point to its end point.
C8_DegenerateAndLinear ==
    fl.pc = "done" =>
        /\ fl.cbs.from = fl.cbs.to => fl.result = <<>>
        /\ (/\ fl.cbs.from # fl.cbs.to
            /\ NearBaseline(fl.cbs.ctrl1, fl.cbs, fl.tolerance)
            /\ NearBaseline(fl.cbs.ctrl2, fl.cbs, fl.tolerance))
               => fl.result = <<[kind |-> "Line", from |-> fl.cbs.from, to |-> fl.cbs.to]>>

\* a curve flattened to one Line although a control point is off the chord
C8_Witness ==
    /\ fl.pc = "done"
    /\ fl.cbs.from # fl.cbs.to
    /\ Cross(Sub(fl.cbs.to, fl.cbs.from), Sub(fl.cbs.ctrl1, fl.cbs.from)) # 0
    /\ NearBaseline(fl.cbs.ctrl1, fl.cbs, fl.tolerance)
    /\ NearBaseline(fl.cbs.ctrl2, fl.cbs, fl.tolerance)
    /\ fl.result = <<[kind |-> "Line", from |-> fl.cbs.from, to |-> fl.cbs.to]>>

-----------------------------------------------------------------------------
(* detect_polygon_arcs as an operation of its own, arc.rs:415-446 *)

MaxPoints == 4
MaxMinPoints == 4
DetectPoints == {<<0, 0>>, <<1, 1>>, <<2, 2>>, P1, P2, P3, <<0, 5>>}
DetectTolerances == {<<1, 2>>, <<1, 1>>, <<2, 1>>}

RECURSIVE PointLists(_)
\* the lists of exactly n points
PointLists(n) ==
    IF n = 0 THEN {<<>>}
    ELSE {Append(l, p) : l \in PointLists(n - 1), p \in DetectPoints}

InitDetect ==
    /\ TurtleIdle
    /\ cv = IdleCv
    /\ fl = IdleFl
    /\ un = IdleUn
    /\ st = IdleSt
    /\ ci = IdleCi
    /\ rd = IdleRd
    /\ tr = IdleTr
    /\ \E n \in 0..MaxPoints :
       \E points \in PointLists(n) :
       \E tolerance \in DetectTolerances :
       \E min_points \in 0..MaxMinPoints :
           dp = [pc |-> "start", points |-> points, tolerance |-> tolerance,
                 min_points |-> min_points, result |-> <<>>]

Detect ==
    /\ dp.pc = "start"
    /\ dp' = [dp EXCEPT !.pc = "done",
                        !.result = detect_polygon_arcs(dp.points, dp.tolerance,
                                                       dp.min_points)]
    /\ UNCHANGED <<turtleVars, cv, fl, un, st, ci, rd, tr>>

NextDetect == Detect

SpecDetect == InitDetect /\ [][NextDetect]_vars

\* all the points lie on one line
Collinear(points) ==
    \A i, j, k \in 1..Len(points) :
        Cross(Sub(points[j], points[i]), Sub(points[k], points[i])) = 0

\* C9: for a list of exactly collinear points, whatever the tolerance and
\* min_points, detect_polygon_arcs returns no Arc: its output is one Line per
\* consecutive pair of points, in order.
C9_CollinearGivesLines ==
    (dp.pc = "done" /\ Collinear(dp.points)) =>
        dp.result = [i \in 1..(Len(dp.points) - 1) |->
                        [kind |-> "Line", from |-> dp.points[i], to |-> dp.points[i + 1]]]

\* four points on one line, one of them visited twice, with a window of
\* three points tried at each cursor position
C9_Witness ==
    /\ dp.pc = "done"
    /\ dp.points = <<<<0, 0>>, <<1, 1>>, <<2, 2>>, <<1, 1>>>>
    /\ dp.min_points = 3
    /\ Len(dp.result) = 3

-----------------------------------------------------------------------------
(* ConversionVisitor::length_to_user_units, converter/units.rs:51-85.  A     *)
(* length is [number, unit] with an exact rational number; the viewport      *)
(* stack is a sequence of <<width, height>> pairs of whole numbers.          *)

LengthUnits == {"Cm", "Mm", "In", "Pc", "Pt", "Px", "None", "Em", "Ex", "Percent"}
DimensionHint == {"Horizontal", "Vertical", "Other"}

\* units.rs:74-76: (width^2 + height^2).sqrt() / 2.sqrt(), on viewports for
\* which (width^2 + height^2) / 2 is the square of a whole number
DiagonalScale(width, height) == RInt(ISqrt((Sq(width) + Sq(height)) \div 2))

\* units.rs:70-78
PercentScale(viewport, hint) ==
    CASE hint = "Horizontal" -> RInt(viewport[1])
      [] hint = "Vertical" -> RInt(viewport[2])
      [] hint = "Other" -> DiagonalScale(viewport[1], viewport[2])

\* a Percent length without a viewport taken as it is
percent_to_user_units_raw(l, hint, viewport_dim_stack) ==
    IF viewport_dim_stack # <<>>
    THEN RMul(RDiv(l.number, RInt(100)),
              PercentScale(viewport_dim_stack[Len(viewport_dim_stack)], hint))
    ELSE l.number

\* units.rs:69-83
percent_to_user_units(l, hint, viewport_dim_stack) ==
    IF viewport_dim_stack # <<>>
    THEN RMul(RDiv(l.number, RInt(100)),
              PercentScale(viewport_dim_stack[Len(viewport_dim_stack)], hint))
    ELSE RDiv(l.number, RInt(100))

\* units.rs:51-85
length_to_user_units(l, hint, viewport_dim_stack, dpi) ==
    CASE l.unit = "Cm" -> RMul(l.number, Rat(50 * dpi, 127))
      [] l.unit = "Mm" -> RMul(l.number, Rat(5 * dpi, 127))
      [] l.unit = "In" -> RMul(l.number, RInt(dpi))
      [] l.unit = "Pc" -> RMul(l.number, Rat(dpi, 6))
      [] l.unit = "Pt" -> RMul(l.number, Rat(dpi, 72))
      [] l.unit \in {"Px", "None"} -> l.number
      [] l.unit \in {"Em", "Ex"} -> RMul(RInt(16), l.number)
      [] l.unit = "Percent" -> percent_to_user_units(l, hint, viewport_dim_stack)

MaxViewports == 2
Viewports == {<<1, 1>>, <<1, 7>>, <<10, 10>>}
LengthNumbers == {RInt(50), RInt(100), Rat(5, 2)}

RECURSIVE ViewportStacks(_)
\* the viewport stacks of depth n
ViewportStacks(n) ==
    IF n = 0 THEN {<<>>}
    ELSE {Append(stack, v) : stack \in ViewportStacks(n - 1), v \in Viewports}

InitUnits ==
    /\ TurtleIdle
    /\ cv = IdleCv
    /\ fl = IdleFl
    /\ dp = IdleDp
    /\ st = IdleSt
    /\ ci = IdleCi
    /\ rd = IdleRd
    /\ tr = IdleTr
    /\ \E number \in LengthNumbers, unit \in LengthUnits, hint \in DimensionHint,
          dpi \in Dpis, depth \in 0..MaxViewports :
       \E stack \in ViewportStacks(depth) :
           un = [pc |-> "start", l |-> [number |-> number, unit |-> unit], hint |-> hint,
                 viewport_dim_stack |-> stack, dpi |-> dpi, result |-> NoValue]

ResolveLength ==
    /\ un.pc = "start"
    /\ un' = [un EXCEPT !.pc = "done",
                        !.result = Some(length_to_user_units(un.l, un.hint,
                                                             un.viewport_dim_stack, un.dpi))]
    /\ UNCHANGED <<turtleVars, cv, fl, dp, st, ci, rd, tr>>

NextUnits == ResolveLength

SpecUnits == InitUnits /\ [][NextUnits]_vars

PercentWithoutViewport ==
    un.pc = "done" /\ un.l.unit = "Percent" /\ un.viewport_dim_stack = <<>>

-----------------------------------------------------------------------------
(* Settings::try_upgrade, lib.rs:30-53.  A String is a sequence of           *)
(* characters; a Version is [tag |-> "V0"], [tag |-> "V5"] or                *)
(* [tag |-> "Unknown", name |-> String].                                     *)

V0 == [tag |-> "V0"]
V5 == [tag |-> "V5"]
Unknown(name) == [tag |-> "Unknown", name |-> name]

\* Option::take().unwrap_or_default() on an Option<String>
unwrap_or_default(o) == IF IsSome(o) THEN Unwrap(o) ELSE <<>>

\* format!("{} M2", x)
format_M2(x) == x \o <<" ", "M", "2">>

\* one pass of the loop that lets an unknown version through
upgrade_step_accepting_unknown(settings) ==
    CASE settings.version = V0 ->
             [settings |-> [settings EXCEPT
                               !.end_sequence = Some(format_M2(unwrap_or_default(@))),
                               !.version = V5],
              outcome |-> "continue"]
      [] settings.version = V5 -> [settings |-> settings, outcome |-> "Ok"]
      [] settings.version.tag = "Unknown" -> [settings |-> settings, outcome |-> "Ok"]

\* lib.rs:39-50, one pass of the loop: the settings after it and whether the
\* loop goes on or breaks with Ok(()) or Err(..)
upgrade_step(settings) ==
    CASE settings.version = V0 ->
             [settings |-> [settings EXCEPT
                               !.end_sequence = Some(format_M2(unwrap_or_default(@))),
                               !.version = V5],
              outcome |-> "continue"]
      [] settings.version = V5 -> [settings |-> settings, outcome |-> "Ok"]
      [] settings.version.tag = "Unknown" -> [settings |-> settings, outcome |-> "Err"]

MaxUpgrades == 2
Versions == {V0, V5, Unknown(<<"V", "6">>), Unknown(<<"V", "0">>)}
EndSequences == {NoValue, Some(<<>>), Some(<<"M", "3", "0">>)}
ToolOnSequences == {NoValue, Some(<<"M", "3">>)}

\* Settings (lib.rs:22-28): the version, machine.end_sequence and, for the
\* fields try_upgrade does not name, machine.tool_on_sequence and
\* conversion.dpi
AllSettings ==
    [version : Versions, end_sequence : EndSequences,
     tool_on_sequence : ToolOnSequences, dpi : Dpis]

InitSettings ==
    /\ TurtleIdle
    /\ cv = IdleCv
    /\ fl = IdleFl
    /\ dp = IdleDp
    /\ un = IdleUn
    /\ ci = IdleCi
    /\ rd = IdleRd
    /\ tr = IdleTr
    /\ \E settings \in AllSettings :
           st = [pc |-> "ready", settings |-> settings, before |-> settings,
                 result |-> "none", previous |-> "none", calls |-> 0, passes |-> 0]

\* lib.rs:37, a call of try_upgrade
TryUpgrade ==
    /\ st.pc \in {"ready", "returned"}
    /\ st.calls < MaxUpgrades
    /\ st' = [st EXCEPT !.pc = "loop", !.before = st.settings, !.previous = st.result,
                        !.result = "none", !.calls = @ + 1, !.passes = 0]
    /\ UNCHANGED <<turtleVars, cv, fl, dp, un, ci, rd, tr>>

\* lib.rs:38-51, one pass of the loop
LoopPass ==
    /\ st.pc = "loop"
    /\ st' = [st EXCEPT
                !.settings = upgrade_step(st.settings).settings,
                !.passes = @ + 1,
                !.result = IF upgrade_step(st.settings).outcome = "continue"
                           THEN "none" ELSE upgrade_step(st.settings).outcome,
                !.pc = IF upgrade_step(st.settings).outcome = "continue"
                       THEN "loop" ELSE "returned"]
    /\ UNCHANGED <<turtleVars, cv, fl, dp, un, ci, rd, tr>>

NextSettings ==
    \/ TryUpgrade
    \/ LoopPass

SpecSettings == InitSettings /\ [][NextSettings]_vars

\* the loop is run by the calling thread until it breaks
SpecSettingsFair == SpecSettings /\ WF_vars(LoopPass)

\* C14, what a returned call has done: an error exactly when the version was
\* Unknown, and then no field is changed; from V0 the end sequence has " M2"
\* appended once and the version is V5, the other fields unchanged; from V5
\* nothing is changed, so a call after a successful one changes nothing.
UpgradeOutcome ==
    st.pc = "returned" =>
        /\ st.result \in {"Ok", "Err"}
        /\ st.result = "Err" <=> st.before.version.tag = "Unknown"
        /\ st.result = "Err" => st.settings = st.before
        /\ st.before.version = V0 =>
               st.settings = [st.before EXCEPT
                                 !.version = V5,
                                 !.end_sequence =
                                     Some(unwrap_or_default(st.before.end_sequence)
                                              \o <<" ", "M", "2">>)]
        /\ st.before.version = V5 => st.settings = st.before
        /\ st.previous = "Ok" => (st.result = "Ok" /\ st.settings = st.before)

\* C14: try_upgrade always terminates (every call returns, after at most two
\* passes of its loop) and returns an error exactly when the version is
\* Unknown, leaving the settings unchanged; from V0 it appends " M2" to the
\* end sequence once and ends at V5; from V5 it changes nothing, so a second
\* call after a successful one is a no-op.
C14_TryUpgrade ==
    /\ [](UpgradeOutcome /\ st.passes <= 2)
    /\ (st.pc = "loop" ~> st.pc = "returned")

\* a second call returned after a first one that upgraded V0 settings with
\* no end sequence
C14_Witness ==
    /\ st.pc = "returned"
    /\ st.calls = 2
    /\ st.previous = "Ok"
    /\ st.result = "Ok"
    /\ st.settings.version = V5
    /\ st.settings.end_sequence = Some(<<" ", "M", "2">>)

-----------------------------------------------------------------------------
(* Later properties of the emission engine, checked under Spec *)

\* C15: move_to(p) appends the motion of the run buffered before the call
\* (cutting moves through the points of the buffer after its first, in order,
\* ending at the last one; one move per point when no arc is detected), then
\* the tool-off sequence, then exactly one RapidPositioning, to p, and leaves
\* line_buffer holding exactly <<p>>.
C15_MoveTo ==
    last_call = "move_to" =>
        /\ Len(Appended) >= 3
        /\ LET n == Len(Appended) - 3
               motion == SubSeq(Appended, 1, n)
               targets == [i \in 1..n |-> motion[i].p]
               rest == IF prev.buffer = <<>> THEN <<>> ELSE Tail(prev.buffer)
           IN  /\ Appended[n + 1].t = "ToolOffSequence"
               /\ Appended[n + 2].t = "AbsoluteDistanceMode"
               /\ Appended[n + 3].t = "RapidPositioning"
               /\ line_buffer = <<Appended[n + 3].p>>
               /\ \A i \in 1..n : motion[i].t \in CuttingKinds
               /\ IsSubsequence(targets, rest)
               /\ (rest # <<>>) => (n > 0 /\ targets[n] = rest[Len(rest)])
               /\ (\A i \in 1..n : motion[i].t = "LinearInterpolation")
                      => targets = rest

\* move_to after two buffered line_to calls: two moves, tool off, one rapid
C15_Witness ==
    /\ last_call = "move_to"
    /\ Len(prev.buffer) >= 3
    /\ Len(Appended) = Len(prev.buffer) + 2
    /\ Appended[Len(Appended)].t = "RapidPositioning"
    /\ line_buffer = <<Appended[Len(Appended)].p>>

-----------------------------------------------------------------------------
(* The buffer cap of line_to, g_code.rs:255-261.  The specification starts   *)
(* from the states the engine is in after begin(), move_to(P1) and a long    *)
(* run of line_to calls, computed with the operators above, and goes on      *)
(* with the drawing calls of Next.                                           *)

CapSlack == 1

\* the drawing calls that follow the long run
CapCalls == 2

\* the i-th point of the long run: P2, P3, P1, P2, ...
RunPoint(i) == IF i % 3 = 1 THEN P2 ELSE IF i % 3 = 2 THEN P3 ELSE P1

\* The program and the buffer after begin(); move_to(P1); line_to(RunPoint(1));
\* ..; line_to(RunPoint(n)) with re-detection enabled and n < MAX_BUFFER_SIZE:
\* the tokens of begin() (g_code.rs:201-207) and of move_to (g_code.rs:229-239),
\* then per line_to the tool-on sequence and the absolute-mode directive
\* (g_code.rs:242), and the point of each call in the buffer (g_code.rs:253).
LongRunProgram(n) ==
    <<UnitsMillimeters>> \o machine_absolute \o machine_program_begin \o machine_absolute
        \o machine_tool_off \o machine_absolute \o <<RapidPositioning(P1)>>
        \o [i \in 1..(2 * n) |-> IF i % 2 = 1 THEN machine_tool_on[1]
                                  ELSE machine_absolute[1]]

LongRunBuffer(n) == <<P1>> \o [i \in 1..n |-> RunPoint(i)]

InitCap ==
    /\ polygon_arc_enabled = TRUE
    /\ supports_circular_interpolation \in BOOLEAN
    /\ \E n \in (MAX_BUFFER_SIZE - 1 - CapSlack)..(MAX_BUFFER_SIZE - 1) :
           /\ program = LongRunProgram(n)
           /\ line_buffer = LongRunBuffer(n)
           /\ prev = [len |-> Len(LongRunProgram(n - 1)), pending |-> FALSE,
                      buffer |-> LongRunBuffer(n - 1), tool |-> "On"]
    /\ pending_between_layers = FALSE
    /\ tool_state = "On"
    /\ phase = "running"
    /\ ncalls = MaxCalls - CapCalls
    /\ last_call = "line_to"
    /\ bl_calls = 0
    /\ bl_marks = 0
    /\ cv = IdleCv
    /\ fl = IdleFl
    /\ dp = IdleDp
    /\ un = IdleUn
    /\ st = IdleSt
    /\ ci = IdleCi
    /\ rd = IdleRd
    /\ tr = IdleTr

NextCap ==
    \/ End
    \/ Comment
    \/ BetweenLayers
    \/ MoveTo
    \/ LineTo
    \/ ArcTo
    \/ CubicBezier
    \/ QuadraticBezier

SpecCap == InitCap /\ [][NextCap]_vars

\* the index of the last token of a sequence that is no move, or 0
LastNonMove(tokens) ==
    LET idx == {i \in 1..Len(tokens) : tokens[i].t \notin CuttingKinds}
    IN  IF idx = {} THEN 0 ELSE CHOOSE i \in idx : \A j \in idx : j <= i

\* the moves that end a sequence of tokens
TrailingMoves(tokens) == SubSeq(tokens, LastNonMove(tokens) + 1, Len(tokens))

TargetsOf(moves) == [i \in 1..Len(moves) |-> moves[i].p]

\* the moves a call appended after its tool-on sequence
AppendedMoves == TrailingMoves(Appended)

\* the call was a line_to that found the buffer full
CapHit == last_call = "line_to" /\ Len(prev.buffer) = MAX_BUFFER_SIZE

\* moves through points of the run, in order, ending at its last point, one
\* move per point when they are all linear
FlushedRun(moves, targets, run) ==
    /\ targets # <<>>
    /\ targets[Len(targets)] = run[Len(run)]
    /\ IsSubsequence(targets, run)
    /\ (\A i \in 1..Len(moves) : moves[i].t = "LinearInterpolation") => targets = run

\* C16: with re-detection enabled line_buffer never holds more than
\* MAX_BUFFER_SIZE points; a line_to(p) on a full buffer flushes the whole run
\* (cutting moves through the buffered points after the first and then p, in
\* order, ending at p; one move per point when no arc is detected) and leaves
\* line_buffer holding exactly <<p>>.
C16_BufferCap ==
    /\ polygon_arc_enabled => Len(line_buffer) <= MAX_BUFFER_SIZE
    /\ (polygon_arc_enabled /\ CapHit) =>
           /\ Len(line_buffer) = 1
           /\ FlushedRun(AppendedMoves, TargetsOf(AppendedMoves),
                         Tail(prev.buffer) \o line_buffer)

\* a line_to on a buffer of MAX_BUFFER_SIZE points, flushed as that many moves
C16_Witness ==
    /\ polygon_arc_enabled
    /\ CapHit
    /\ Len(AppendedMoves) = MAX_BUFFER_SIZE
    /\ Len(line_buffer) = 1

-----------------------------------------------------------------------------
(* circular_interpolation, g_code.rs:124-179, call by call.  The arcs still  *)
(* to handle are kept in `work`, the innermost call first; `pieces` keeps,   *)
(* for every token of the output, the svg_arc it was emitted for.                *)

\* the grid points on the circle of radius 5 about the origin
RingPoints ==
    {p \in (-5..5) \X (-5..5) : SquareLength(p) = 25}

IsSquare(n) == \E k \in 0..n : k * k = n

\* the vectors from the centre to the end points, scaled by den
FromVec(svg_arc) ==
    <<svg_arc.from[1] * svg_arc.den - svg_arc.cxn,
      svg_arc.from[2] * svg_arc.den - svg_arc.cyn>>
ToVec(svg_arc) ==
    <<svg_arc.to[1] * svg_arc.den - svg_arc.cxn,
      svg_arc.to[2] * svg_arc.den - svg_arc.cyn>>

\* the arc turns by less than half a turn from its start to its end, in the
\* direction of its sweep flag
BelowHalfTurn(svg_arc) ==
    IF svg_arc.sweep THEN Cross(FromVec(svg_arc), ToVec(svg_arc)) > 0
    ELSE Cross(FromVec(svg_arc), ToVec(svg_arc)) < 0

Antipodal(svg_arc) ==
    Cross(FromVec(svg_arc), ToVec(svg_arc)) = 0 /\ svg_arc.from # svg_arc.to

\* the flags of an SvgArc agree with its circle: both end points lie on it,
\* and large_arc is set exactly when the arc turns by more than half a turn
WellFormed(svg_arc) ==
    /\ svg_arc.from # svg_arc.to
    /\ SquareLength(ToVec(svg_arc)) = svg_arc.r2n
    /\ Antipodal(svg_arc) \/ (svg_arc.large_arc <=> ~BelowHalfTurn(svg_arc))

\* the point half way along the arc is a grid point
MidpointOnGrid(svg_arc) ==
    \/ Antipodal(svg_arc) /\ svg_arc.den = 1
    \/ /\ ~Antipodal(svg_arc)
       /\ svg_arc.den = 1
       /\ IsSquare(svg_arc.r2n)
       /\ IsSquare(SquareLength(<<FromVec(svg_arc)[1] + ToVec(svg_arc)[1],
                                  FromVec(svg_arc)[2] + ToVec(svg_arc)[2]>>))
       /\ SquareLength(Sub(ArcMidpoint(svg_arc), <<svg_arc.cxn, svg_arc.cyn>>))
              = svg_arc.r2n

\* arcs on the circle of radius 5, and small arcs: radius 1/2, radius
\* sqrt(2), and chord 1 on a circle of radius sqrt(26)/2
RingArcs ==
    {svg_arc \in {SvgArc(f, t, 0, 0, 1, l, w) :
                  f \in RingPoints, t \in RingPoints, l \in BOOLEAN, w \in BOOLEAN} :
        WellFormed(svg_arc) /\ (Bisected(svg_arc) => MidpointOnGrid(svg_arc))}

SmallArcs ==
    { SvgArc(<<0, 0>>, <<1, 0>>, 1, 5, 2, FALSE, TRUE),
      SvgArc(<<1, 0>>, <<0, 0>>, 1, 5, 2, FALSE, FALSE),
      SvgArc(<<1, 1>>, <<1, -1>>, 0, 0, 1, FALSE, FALSE),
      SvgArc(<<1, -1>>, <<1, 1>>, 0, 0, 1, FALSE, TRUE),
      SvgArc(<<0, 0>>, <<1, 0>>, 1, 0, 2, FALSE, TRUE),
      SvgArc(<<2, 0>>, <<0, 2>>, 0, 0, 1, FALSE, TRUE),
      SvgArc(<<0, 2>>, <<2, 0>>, 0, 0, 1, FALSE, FALSE) }

CircularArcs == RingArcs \cup SmallArcs

\* the values of min_arc_radius
MinArcRadii == {MinArcRadius, <<2, 1>>}

InitArc ==
    /\ TurtleIdle
    /\ cv = IdleCv
    /\ fl = IdleFl
    /\ dp = IdleDp
    /\ un = IdleUn
    /\ st = IdleSt
    /\ rd = IdleRd
    /\ tr = IdleTr
    /\ \E svg_arc \in CircularArcs, min_arc_radius \in MinArcRadii :
           ci = [pc |-> "called", arc |-> svg_arc, min_arc_radius |-> min_arc_radius,
                 work |-> <<svg_arc>>, out |-> <<>>, pieces |-> <<>>,
                 depth |-> 0, flushed |-> <<>>]

\* g_code.rs:124-179, the innermost pending call: it returns a linear move,
\* or calls itself for the two halves, or returns a circular move
InterpolateCall ==
    /\ ci.pc = "called"
    /\ ci.work # <<>>
    /\ ci' = IF Degraded(Head(ci.work), ci.min_arc_radius)
             THEN [ci EXCEPT !.work = Tail(@),
                             !.out = Append(@, LinearInterpolation(Head(ci.work).to)),
                             !.pieces = Append(@, Head(ci.work))]
             ELSE IF Bisected(Head(ci.work))
             THEN [ci EXCEPT !.work = ArcSplit(Head(ci.work)) \o Tail(@),
                             !.depth = @ + 1]
             ELSE [ci EXCEPT !.work = Tail(@),
                             !.out = Append(@, CircularMove(Head(ci.work))),
                             !.pieces = Append(@, Head(ci.work))]
    /\ UNCHANGED <<turtleVars, cv, fl, dp, un, st, rd, tr>>

\* the outermost call returns its token vector
InterpolateReturn ==
    /\ ci.pc = "called"
    /\ ci.work = <<>>
    /\ ci' = [ci EXCEPT !.pc = "returned"]
    /\ UNCHANGED <<turtleVars, cv, fl, dp, un, st, rd, tr>>

\* g_code.rs:76-107: the same svg_arc as a segment of the detector at flush time
FlushArc ==
    /\ ci.pc = "returned"
    /\ ci' = [ci EXCEPT !.pc = "flushed",
                        !.flushed = SegmentTokensWith(ci.arc, ci.min_arc_radius)]
    /\ UNCHANGED <<turtleVars, cv, fl, dp, un, st, rd, tr>>

NextArc ==
    \/ InterpolateCall
    \/ InterpolateReturn
    \/ FlushArc

SpecArc == InitArc /\ [][NextArc]_vars

\* every pending call is eventually made
SpecArcFair == SpecArc /\ WF_vars(InterpolateCall) /\ WF_vars(InterpolateReturn)

\* radius or chord below the minimum; the end points of these arcs differ, so
\* that their sweep angle is not below 1e-6
TooSmall(svg_arc, min_arc_radius) ==
    \/ svg_arc.r2n * Sq(min_arc_radius[2]) < Sq(min_arc_radius[1]) * Sq(svg_arc.den)
    \/ SquareLength(Sub(svg_arc.to, svg_arc.from)) * Sq(min_arc_radius[2])
           < Sq(min_arc_radius[1])

Returned == ci.pc \in {"returned", "flushed"}

Chained ==
    /\ ci.out # <<>>
    /\ ci.pieces[1].from = ci.arc.from
    /\ ci.out[Len(ci.out)].p = ci.arc.to
    /\ \A i \in 1..Len(ci.out) : ci.out[i].p = ci.pieces[i].to
    /\ \A i \in 1..(Len(ci.out) - 1) : ci.out[i].p = ci.pieces[i + 1].from

\* every circular move was emitted for an arc that is not flagged large, whose
\* end points are not opposite, and that turns by less than half a turn
MovesBelowHalfTurn ==
    \A i \in 1..Len(ci.out) :
        ci.out[i].t \in CircularKinds =>
            /\ ~ci.pieces[i].large_arc
            /\ ~Antipodal(ci.pieces[i])
            /\ BelowHalfTurn(ci.pieces[i])

\* an arc that was split was split at the point of its circle that is as far
\* from its start as from its end
SplitAtMidpoint ==
    (Returned /\ Len(ci.out) = 2) =>
        /\ SquareLength(Sub(ci.out[1].p, ci.arc.from))
               = SquareLength(Sub(ci.arc.to, ci.out[1].p))
        /\ SquareLength(ToVec(ci.pieces[1])) = ci.arc.r2n

\* C18: circular_interpolation returns for every circular arc; an arc flagged
\* large or with opposite end points is split at its midpoint and the halves
\* are handled in turn, so that every circular move is emitted for an arc that
\* is neither flagged large nor a half turn, and the moves lead from the start
\* of the arc to its end.
C18_BisectionTerminates ==
    /\ [](MovesBelowHalfTurn /\ SplitAtMidpoint /\ (Returned => Chained))
    /\ (ci.pc = "called" ~> ci.pc = "returned")

\* a large arc returned as two circular moves
C18_Witness ==
    /\ ci.pc = "returned"
    /\ ci.arc.large_arc
    /\ Len(ci.out) = 2
    /\ ci.out[1].t \in CircularKinds
    /\ ci.out[2].t \in CircularKinds

\* C19: an arc that is neither degraded nor split yields exactly one circular
\* move, to the end point of the arc, with I and J the centre minus the start
\* point, counterclockwise when the sweep flag is set and clockwise when not.
C19_OneCircularMove ==
    (/\ Returned
     /\ ~TooSmall(ci.arc, ci.min_arc_radius)
     /\ ~ci.arc.large_arc
     /\ ~Antipodal(ci.arc)) =>
        /\ Len(ci.out) = 1
        /\ ci.out[1].t = IF ci.arc.sweep THEN "CounterclockwiseCircularInterpolation"
                          ELSE "ClockwiseCircularInterpolation"
        /\ ci.out[1].p = ci.arc.to
        /\ ci.out[1].I = <<ci.arc.cxn - ci.arc.from[1] * ci.arc.den, ci.arc.den>>
        /\ ci.out[1].J = <<ci.arc.cyn - ci.arc.from[2] * ci.arc.den, ci.arc.den>>

\* a clockwise arc from (1, 0) to (0, 0) about (1/2, 5/2): I = -1/2, J = 5/2
C19_Witness ==
    /\ ci.pc = "returned"
    /\ ci.arc.from = <<1, 0>>
    /\ ci.arc.den = 2
    /\ ~ci.arc.sweep
    /\ ci.out = <<[t |-> "ClockwiseCircularInterpolation", p |-> <<0, 0>>,
                   I |-> <<-1, 2>>, J |-> <<5, 2>>]>>

-----------------------------------------------------------------------------
(* The radii of the SvgArcs that reach circular_interpolation.  An arc is    *)
(* kept as the square of its chord and its radii: radii.x is the rational x, *)
(* radii.y is y + gap * f64::EPSILON, so that the radii are equal for x = y  *)
(* and gap = 0 and differ by less than f64::EPSILON for x = y and |gap| < 1. *)
(* The arcs have x_rotation 0 and a chord along the x axis.                  *)

RSqrt(q) == <<ISqrt(q[1]), ISqrt(q[2])>>

\* g_code.rs:125 and arc.rs:152: (radii.x.abs() - radii.y.abs()).abs() < EPSILON
NearCircular(a) == a.x = a.y /\ RLess(a.gap, ROne) /\ RLess(RInt(-1), a.gap)

\* SvgArc::is_straight_line (lyon_geom): a radius of zero or no chord
RadiiStraightLine(a) == a.x = RZero \/ a.y = RZero \/ a.chord2 = RZero

\* Vector::splat(radius), arc.rs:71 and arc.rs:617
Splat(a, radius) == [a EXCEPT !.x = radius, !.y = radius, !.gap = RZero, !.large_arc = FALSE]

\* arc.rs:145-186, FlattenWithArcs for SvgArc: nothing for no chord, a line
\* for a straight arc, the arc itself when its radii are within EPSILON, and
\* else arcs built by arc_from_endpoints_and_tangents, whose radius is
\* `fitted`.  The result is the sequence of the arcs among the segments.
flattened_arc(a, fitted) ==
    IF a.chord2 = RZero THEN <<>>
    ELSE IF RadiiStraightLine(a) THEN <<>>
    ELSE IF NearCircular(a) THEN <<a>>
    ELSE <<Splat(a, fitted)>>

\* SvgArc::to_arc (lyon_geom), called at g_code.rs:130: radii too small for
\* the chord are scaled up, both by the same factor, until the arc is a half
\* turn (SVG implementation notes, out-of-range radii)
RadiiScale(a) ==
    IF RLess(RMul(RInt(4), RMul(a.x, a.x)), a.chord2)
    THEN RDiv(RSqrt(a.chord2), RMul(RInt(2), a.x))
    ELSE ROne

to_arc(a) ==
    [a EXCEPT !.x = RMul(@, RadiiScale(a)), !.y = RMul(@, RadiiScale(a)),
              !.gap = RMul(@, RadiiScale(a))]

\* g_code.rs:136-138 on squares; radius is radii.x of the SvgArc
RadiiDegraded(a, min_arc_radius) ==
    \/ RLess(RMul(a.x, a.x), RMul(min_arc_radius, min_arc_radius))
    \/ RLess(a.chord2, RMul(min_arc_radius, min_arc_radius))

\* g_code.rs:147-149: chord = 2 * radius, or a sweep of a half turn, which is
\* what to_arc gives an arc whose radii were too small
RadiiBisected(a) ==
    \/ a.large_arc
    \/ RLeq(RMul(RInt(4), RMul(a.x, a.x)), a.chord2)

\* the distance from the chord to the centre, for radii that reach: its
\* square is radius^2 - chord^2 / 4
Sagitta2(a) == RSub(RMul(a.x, a.x), RDiv(a.chord2, RInt(4)))

\* Arc::split(0.5) and to_svg_arc (lyon_geom), g_code.rs:150-152: each half
\* has the radii of arc_struct; the square of its chord is 2 r^2 for a half
\* turn and 2 r^2 + 2 r h for a large arc whose centre is h from the chord
HalfOf(a) ==
    [x |-> to_arc(a).x, y |-> to_arc(a).y, gap |-> to_arc(a).gap, large_arc |-> FALSE,
     chord2 |-> IF RLeq(RMul(RInt(4), RMul(a.x, a.x)), a.chord2)
                THEN RDiv(a.chord2, RInt(2))
                ELSE RAdd(RMul(RInt(2), RMul(a.x, a.x)),
                          RMul(RInt(2), RMul(a.x, RSqrt(Sagitta2(a)))))]

RadiiChords == {2, 6, 8}
RadiiValues == {Rat(1, 2), RInt(1), RInt(3), RInt(4), RInt(5)}
RadiiGaps == {RZero, Rat(1, 2), Rat(-1, 2), RInt(4)}

\* the spacing of the f64 values from q upwards, in units of f64::EPSILON
\* (2^-52, the spacing in [1, 2)), for 1/2 <= q < 8
UlpAbove(q) ==
    IF RLess(q, ROne) THEN Rat(1, 2)
    ELSE IF RLess(q, RInt(2)) THEN ROne
    ELSE IF RLess(q, RInt(4)) THEN RInt(2)
    ELSE RInt(4)

\* the spacing of the f64 values below q: half of it at a power of two
UlpBelow(q) ==
    IF q \in {ROne, RInt(2), RInt(4)} THEN RDiv(UlpAbove(q), RInt(2)) ELSE UlpAbove(q)

IsWhole(q) == q[2] = 1

\* radii.y = y + gap * EPSILON is a value of f64 (SvgArc<f64>)
Representable(a) ==
    IF RLess(a.gap, RZero) THEN IsWhole(RDiv(a.gap, UlpBelow(a.y)))
    ELSE IsWhole(RDiv(a.gap, UlpAbove(a.y)))

IsRationalSquare(q) == q[1] >= 0 /\ IsSquare(q[1]) /\ IsSquare(q[2])

\* the SvgArcs handed to arc(): circles, near circles and ellipses
RadiiArcs ==
    {a \in [chord2 : {RInt(c * c) : c \in RadiiChords}, x : RadiiValues, y : RadiiValues,
            gap : RadiiGaps, large_arc : BOOLEAN] :
        /\ a.x # a.y => a.gap = RZero
        /\ Representable(a)
        /\ (a.large_arc /\ RLess(a.chord2, RMul(RInt(4), RMul(a.x, a.x))))
               => IsRationalSquare(Sagitta2(a))}

\* the arcs with radii Vector::splat(radius) that reach their end points
SplatArcs ==
    {a \in RadiiArcs : a.x = a.y /\ a.gap = RZero
                        /\ RLeq(a.chord2, RMul(RInt(4), RMul(a.x, a.x)))}

InitRadii ==
    /\ TurtleIdle
    /\ cv = IdleCv
    /\ fl = IdleFl
    /\ dp = IdleDp
    /\ un = IdleUn
    /\ st = IdleSt
    /\ ci = IdleCi
    /\ tr = IdleTr
    /\ \E min_arc_radius \in {Rat(1, 2), RInt(2)} :
           \/ \E a \in RadiiArcs :
                  rd = [pc |-> "arc", call |-> "arc", arc |-> a, min_arc_radius |-> min_arc_radius,
                        work |-> <<>>, entered |-> 0]
           \/ \E a \in SplatArcs, pc \in {"cubic_bezier", "flush"} :
                  rd = [pc |-> pc, call |-> pc, arc |-> a, min_arc_radius |-> min_arc_radius,
                        work |-> <<>>, entered |-> 0]

\* g_code.rs:275-300 with circular interpolation supported: a straight arc
\* goes to line_to, the arcs of flattened() go to circular_interpolation
TurtleArc ==
    /\ rd.pc = "arc"
    /\ \E fitted \in {RSqrt(rd.arc.chord2), RMul(RInt(2), RSqrt(rd.arc.chord2))} :
           rd' = IF RadiiStraightLine(rd.arc)
                 THEN [rd EXCEPT !.pc = "done"]
                 ELSE [rd EXCEPT !.pc = "emitting",
                                 !.work = flattened_arc(rd.arc, fitted)]
    /\ UNCHANGED <<turtleVars, cv, fl, dp, un, st, ci, tr>>

\* g_code.rs:309-327 with arc.rs:94-138: the arcs of a flattened Bezier curve
\* come from arc_from_endpoints_and_tangents, radii Vector::splat(radius)
TurtleCubicBezier ==
    /\ rd.pc = "cubic_bezier"
    /\ rd' = [rd EXCEPT !.pc = "emitting", !.work = <<rd.arc>>]
    /\ UNCHANGED <<turtleVars, cv, fl, dp, un, st, ci, tr>>

\* g_code.rs:76-95 with arc.rs:610-628: a detected arc has radii
\* Vector::splat(circle.radius) and reaches circular_interpolation when it is
\* not straight and its radii are at least min_arc_radius
TurtleFlush ==
    /\ rd.pc = "flush"
    /\ rd' = IF /\ ~RadiiStraightLine(rd.arc)
                /\ RLeq(rd.min_arc_radius, rd.arc.x)
                /\ RLeq(rd.min_arc_radius, rd.arc.y)
             THEN [rd EXCEPT !.pc = "emitting", !.work = <<rd.arc>>]
             ELSE [rd EXCEPT !.pc = "done"]
    /\ UNCHANGED <<turtleVars, cv, fl, dp, un, st, ci, tr>>

\* g_code.rs:124-179, one call: the assertion at the entry, then the return
\* of a move or the calls for the two halves
EnterInterpolation ==
    /\ rd.pc = "emitting"
    /\ rd.work # <<>>
    /\ rd' = IF ~NearCircular(Head(rd.work))
             THEN [rd EXCEPT !.pc = "assertion failed", !.entered = @ + 1]
             ELSE IF RadiiDegraded(Head(rd.work), rd.min_arc_radius)
             THEN [rd EXCEPT !.work = Tail(@), !.entered = @ + 1]
             ELSE IF RadiiBisected(Head(rd.work))
             THEN [rd EXCEPT !.work = <<HalfOf(Head(rd.work)), HalfOf(Head(rd.work))>>
                                          \o Tail(@),
                             !.entered = @ + 1]
             ELSE [rd EXCEPT !.work = Tail(@), !.entered = @ + 1]
    /\ UNCHANGED <<turtleVars, cv, fl, dp, un, st, ci, tr>>

\* the Turtle call returns
TurtleReturn ==
    /\ rd.pc = "emitting"
    /\ rd.work = <<>>
    /\ rd' = [rd EXCEPT !.pc = "done"]
    /\ UNCHANGED <<turtleVars, cv, fl, dp, un, st, ci, tr>>

NextRadii ==
    \/ TurtleArc
    \/ TurtleCubicBezier
    \/ TurtleFlush
    \/ EnterInterpolation
    \/ TurtleReturn

SpecRadii == InitRadii /\ [][NextRadii]_vars

\* C20: every SvgArc that reaches circular_interpolation, from arc(), from a
\* Bezier curve, from the flush or from its own bisection, has radii within
\* f64::EPSILON of each other: the assertion at its entry never fails.
C20_RadiiEqualAtEntry ==
    /\ rd.pc # "assertion failed"
    /\ rd.pc = "emitting" => \A i \in 1..Len(rd.work) : NearCircular(rd.work[i])

-----------------------------------------------------------------------------
(* detect_polygon_arcs, arc.rs:415-446, one iteration of its loop at a time. *)
(* dp.i is the 0-based cursor i of the code.                                 *)

RECURSIVE PointListsOver(_, _)
\* the lists of exactly n points of the set `among`
PointListsOver(n, among) ==
    IF n = 0 THEN {<<>>}
    ELSE {Append(l, p) : l \in PointListsOver(n - 1, among), p \in among}

\* a call with a list of points of `among`
DetectCalled(among) ==
    /\ TurtleIdle
    /\ cv = IdleCv
    /\ fl = IdleFl
    /\ un = IdleUn
    /\ st = IdleSt
    /\ ci = IdleCi
    /\ rd = IdleRd
    /\ tr = IdleTr
    /\ \E n \in 0..MaxPoints :
       \E points \in PointListsOver(n, among) :
       \E tolerance \in DetectTolerances :
       \E min_points \in 0..MaxMinPoints :
           dp = [pc |-> "called", points |-> points, tolerance |-> tolerance,
                 min_points |-> min_points, result |-> <<>>, i |-> 0]

InitDetectLoop == DetectCalled(DetectPoints)

\* four points of the circle of radius 5 about the origin
CirclePoints == {P1, P2, P3, <<0, 5>>}

InitDetectCircle == DetectCalled(CirclePoints)

\* arc.rs:423-428
DetectCall ==
    /\ dp.pc = "called"
    /\ dp' = IF Len(dp.points) < 2 THEN [dp EXCEPT !.pc = "done"]
             ELSE [dp EXCEPT !.pc = "loop"]
    /\ UNCHANGED <<turtleVars, cv, fl, un, st, ci, rd, tr>>

\* arc.rs:430-443, one iteration of the while loop
DetectIteration ==
    /\ dp.pc = "loop"
    /\ dp.i < Len(dp.points) - 1
    /\ dp' = [dp EXCEPT
                 !.i = DetectSteps(dp.points, dp.i, dp.tolerance, dp.min_points,
                                   dp.result, 1).i,
                 !.result = DetectSteps(dp.points, dp.i, dp.tolerance, dp.min_points,
                                        dp.result, 1).result]
    /\ UNCHANGED <<turtleVars, cv, fl, un, st, ci, rd, tr>>

\* arc.rs:430 and 445: the loop condition fails and result is returned
DetectReturn ==
    /\ dp.pc = "loop"
    /\ ~(dp.i < Len(dp.points) - 1)
    /\ dp' = [dp EXCEPT !.pc = "done"]
    /\ UNCHANGED <<turtleVars, cv, fl, un, st, ci, rd, tr>>

NextDetectLoop ==
    \/ DetectCall
    \/ DetectIteration
    \/ DetectReturn

SpecDetectLoop == InitDetectLoop /\ [][NextDetectLoop]_vars

\* The loop is the body of one call and nothing else is scheduled: a step is
\* taken whenever one can be.  This is weak fairness of NextDetectLoop with
\* its enabling condition written out: a step can be taken exactly when the
\* call has not returned.
SpecDetectLoopFair ==
    /\ InitDetectCircle
    /\ [][NextDetectLoop]_vars
    /\ ([]<>(dp.pc = "done") \/ []<><<NextDetectLoop>>_vars)

\* the window of n points at the cursor, and whether the circle fit holds on it
Window(n) == Slice(dp.points, dp.i, dp.i + n)
WindowFits(n) ==
    /\ dp.i + n <= Len(dp.points)
    /\ fit_circle_to_points(Window(n), dp.tolerance).ok

\* the fit holds on every window from min_points points up to n points
FitsUpTo(n) == \A k \in dp.min_points..n : WindowFits(k)

\* an arc can be built on the window of n points
WindowArc(n) ==
    create_svg_arc_from_circle(Window(n)[1], Window(n)[n],
                               fit_circle_to_points(Window(n), dp.tolerance))

\* growing from min_points points while the fit holds reaches n points, and
\* the window of n points gives an arc
ValidWindow(n) ==
    /\ n >= dp.min_points
    /\ FitsUpTo(n)
    /\ WindowArc(n).ok

\* the last of the valid windows
LongestWindow(n) ==
    /\ ValidWindow(n)
    /\ \A m \in (n + 1)..Len(dp.points) : ~ValidWindow(m)

LastEmitted == dp'.result[Len(dp'.result)]

\* C21: an iteration either emits one Arc that spans the longest window on
\* which the fit holds, grown from min_points points, and moves the cursor to
\* that window's last point, or, when no window fits, emits one Line for the
\* first segment and moves the cursor by one point.
C21_LongestWindow ==
    [][DetectIteration =>
         /\ Len(dp'.result) = Len(dp.result) + 1
         /\ \/ /\ LastEmitted.kind = "Arc"
               /\ \E n \in 1..Len(dp.points) :
                      /\ LongestWindow(n)
                      /\ LastEmitted.from = Window(n)[1]
                      /\ LastEmitted.to = Window(n)[n]
                      /\ dp'.i = dp.i + n - 1
            \/ /\ LastEmitted = LineSegment(dp.points[dp.i + 1], dp.points[dp.i + 2])
               /\ dp'.i = dp.i + 1
               /\ \A n \in 1..Len(dp.points) : ~ValidWindow(n)]_vars

\* what the code does instead: the Arc spans the first window, counted from
\* min_points points, on which the fit holds and an arc can be built
DetectFirstWindow ==
    [][DetectIteration =>
         /\ Len(dp'.result) = Len(dp.result) + 1
         /\ \/ /\ LastEmitted.kind = "Arc"
               /\ \E n \in 1..Len(dp.points) :
                      /\ ValidWindow(n)
                      /\ \A k \in 1..(n - 1) : ~ValidWindow(k)
                      /\ LastEmitted = WindowArc(n)
                      /\ dp'.i = dp.i + n - 1
            \/ /\ LastEmitted = LineSegment(dp.points[dp.i + 1], dp.points[dp.i + 2])
               /\ dp'.i = dp.i + 1
               /\ \A n \in 1..Len(dp.points) : ~ValidWindow(n)]_vars

\* run iteration by iteration, the loop returns what detect_polygon_arcs returns
DetectLoopAgrees ==
    dp.pc = "done" =>
        dp.result = detect_polygon_arcs(dp.points, dp.tolerance, dp.min_points)

\* the primitives of dp.result lead from the first point to the last one
DetectChain ==
    /\ Len(dp.result) >= 1
    /\ dp.result[1].from = dp.points[1]
    /\ \A k \in 1..(Len(dp.result) - 1) : dp.result[k + 1].from = dp.result[k].to
    /\ dp.result[Len(dp.result)].to = dp.points[Len(dp.points)]

\* C30: detect_polygon_arcs returns for every point list, tolerance and
\* min_points, 0, 1 and 2 included: each iteration moves the cursor forward by
\* at least one point.  It returns nothing for fewer than two points and
\* otherwise a chain from the first point to the last one.
C30_DetectTerminatesWithChain ==
    /\ [][DetectIteration => dp'.i > dp.i]_vars
    /\ [](dp.pc = "done" =>
             IF Len(dp.points) < 2 THEN dp.result = <<>> ELSE DetectChain)
    /\ (dp.pc = "called" ~> dp.pc = "done")

\* an Arc over three points followed by a Line to the fourth point
C30_Witness ==
    /\ dp.pc = "done"
    /\ dp.min_points = 3
    /\ Len(dp.points) = 4
    /\ Len(dp.result) = 2
    /\ dp.result[1].kind = "Arc"
    /\ dp.result[2].kind = "Line"

-----------------------------------------------------------------------------
(* Later properties of svg2program, checked under SpecConverter *)

Composed == cv.pc \in {"transform", "done"}

\* trim or an override dimension was asked for
AlignmentOrTrim ==
    cv.in.options.trim \/ cv.in.options.dimensions # <<NoValue, NoValue>>

PostOf == post_transform(cv.in, cv.pre.bbox, viewport_to_mm(cv.pre.viewport, cv.in.dpi))
OriginOf == origin_transform(origin_in_user_units(cv.in.origin), cv.pre.bbox)

\* C22: the transform of the second pass is the alignment transform followed
\* by the origin transform exactly when no alignment or trim was requested or
\* the configured origin is not the default [0, 0]; with an alignment or trim
\* and the default origin it is the alignment transform alone.
C22_OriginComposition ==
    Composed =>
        IF ~AlignmentOrTrim \/ cv.in.origin # <<Some(RZero), Some(RZero)>>
        THEN cv.combined = Then(PostOf, OriginOf)
        ELSE cv.combined = PostOf

\* trim with the default origin on a drawing whose box does not start at the
\* origin: the origin transform would move it and is left out
C22_Witness ==
    /\ Composed
    /\ cv.in.options.trim
    /\ cv.in.origin = <<Some(RZero), Some(RZero)>>
    /\ OriginOf # Identity
    /\ cv.combined = PostOf
    /\ cv.combined # Then(PostOf, OriginOf)

-----------------------------------------------------------------------------
(* Transformed for SvgArc, arc.rs:190-268.  A transform is the array         *)
(* [a, b, c, d, tx, ty] of Transform2D::to_array with integer entries; an    *)
(* arc has integer radii and an x_rotation of 0 or 1 quarter turns.  The     *)
(* transforms have b = c = 0 or a = d = 0, for which the eigenvalues of      *)
(* ma * transpose(ma) are squares of integers and L is 0.                    *)

\* Transform2D::transform_point
transform_point(t, p) == <<p[1] * t.a + p[2] * t.c + t.tx, p[1] * t.b + p[2] * t.d + t.ty>>

\* x_rotation.sin_cos() for 0 and 1 quarter turns
QuarterSin(q) == IF q = 1 THEN 1 ELSE 0
QuarterCos(q) == IF q = 1 THEN 0 ELSE 1

\* arc.rs:208-213
TransformedAxes(svg_arc, t) ==
    <<svg_arc.radii[1] * (t.a * QuarterCos(svg_arc.x_rotation)
                             + t.c * QuarterSin(svg_arc.x_rotation)),
      svg_arc.radii[1] * (t.b * QuarterCos(svg_arc.x_rotation)
                             + t.d * QuarterSin(svg_arc.x_rotation)),
      svg_arc.radii[2] * (-t.a * QuarterSin(svg_arc.x_rotation)
                             + t.c * QuarterCos(svg_arc.x_rotation)),
      svg_arc.radii[2] * (-t.b * QuarterSin(svg_arc.x_rotation)
                             + t.d * QuarterCos(svg_arc.x_rotation))>>

\* arc.rs:218-254 for ma = <<m0, m1, m2, m3>> of TransformedAxes, with J, K,
\* the discriminant D and 2 * JK; D < EPSILON * JK is D = 0 with JK > 0 on
\* integers.  atan of 0 is the rotation 0.
RotationAndRadii(J, K, D, L) ==
    IF D = 0 /\ J + K > 0
    THEN [x_rotation |-> 0, radii |-> <<ISqrt((J + K) \div 2), ISqrt((J + K) \div 2)>>]
    ELSE [x_rotation |-> IF L = 0 /\ (J + K + ISqrt(D)) \div 2 = K THEN 1 ELSE 0,
          radii |-> <<ISqrt((J + K + ISqrt(D)) \div 2), ISqrt((J + K - ISqrt(D)) \div 2)>>]

RotationAndRadiiOf(ma) ==
    RotationAndRadii(Sq(ma[1]) + Sq(ma[3]), Sq(ma[2]) + Sq(ma[4]),
                     (Sq(ma[1] - ma[4]) + Sq(ma[3] + ma[2]))
                         * (Sq(ma[1] + ma[4]) + Sq(ma[3] - ma[2])),
                     ma[1] * ma[2] + ma[3] * ma[4])

\* arc.rs:255-256
invert_sweep(t) == t.a * t.d - t.b * t.c < 0

\* transformed that never inverts the sweep flag
transformed_keeping_sweep(svg_arc, t) ==
    [from |-> transform_point(t, svg_arc.from),
     to |-> transform_point(t, svg_arc.to),
     radii |-> RotationAndRadiiOf(TransformedAxes(svg_arc, t)).radii,
     x_rotation |-> RotationAndRadiiOf(TransformedAxes(svg_arc, t)).x_rotation,
     sweep |-> svg_arc.sweep,
     large_arc |-> svg_arc.large_arc]

\* arc.rs:198-268
transformed(svg_arc, t) ==
    [from |-> transform_point(t, svg_arc.from),
     to |-> transform_point(t, svg_arc.to),
     radii |-> RotationAndRadiiOf(TransformedAxes(svg_arc, t)).radii,
     x_rotation |-> RotationAndRadiiOf(TransformedAxes(svg_arc, t)).x_rotation,
     sweep |-> IF invert_sweep(t) THEN ~svg_arc.sweep ELSE svg_arc.sweep,
     large_arc |-> svg_arc.large_arc]

MaxTransforms == 2

Affine(a, b, c, d, tx, ty) == [a |-> a, b |-> b, c |-> c, d |-> d, tx |-> tx, ty |-> ty]

\* the identity, two mirrors, a quarter turn, the swap of the axes, a half
\* turn, two scalings and a projection
Transforms ==
    {Affine(1, 0, 0, 1, 0, 0), Affine(-1, 0, 0, 1, 0, 0), Affine(1, 0, 0, -1, 0, 3),
     Affine(0, 1, -1, 0, 0, 0), Affine(0, 1, 1, 0, 0, 0), Affine(-1, 0, 0, -1, 2, 0),
     Affine(2, 0, 0, 2, 1, 0), Affine(2, 0, 0, 1, 0, 0), Affine(1, 0, 0, 0, 0, 0)}

TransformArcs ==
    [from : {<<0, 0>>, <<1, 1>>}, to : {<<2, 0>>}, radii : {<<2, 2>>, <<3, 1>>},
     x_rotation : {0}, sweep : BOOLEAN, large_arc : BOOLEAN]

InitTransform ==
    /\ TurtleIdle
    /\ cv = IdleCv
    /\ fl = IdleFl
    /\ dp = IdleDp
    /\ un = IdleUn
    /\ st = IdleSt
    /\ ci = IdleCi
    /\ rd = IdleRd
    /\ \E svg_arc \in TransformArcs :
           tr = [pc |-> "arc", original |-> svg_arc, before |-> svg_arc, arc |-> svg_arc,
                 applied |-> <<>>]

\* one call of transformed() on the arc that the call before returned
Transform ==
    /\ tr.pc = "arc"
    /\ Len(tr.applied) < MaxTransforms
    /\ \E t \in Transforms :
           tr' = [tr EXCEPT !.before = tr.arc,
                            !.arc = transformed(tr.arc, t),
                            !.applied = Append(@, t)]
    /\ UNCHANGED <<turtleVars, cv, fl, dp, un, st, ci, rd>>

NextTransform == Transform

SpecTransform == InitTransform /\ [][NextTransform]_vars

\* the determinant of the linear part of the transform applied last
LastTransform == tr.applied[Len(tr.applied)]
Determinant(t) == t.a * t.d - t.b * t.c
Mirroring(t) == Determinant(t) < 0

\* C23: transformed() maps the end points by the transform, inverts the sweep
\* flag exactly when the determinant of the linear part is negative and keeps
\* the large-arc flag; after two mirroring transforms the sweep flag is the
\* original one.
C23_TransformedFlags ==
    (tr.pc = "arc" /\ Len(tr.applied) >= 1) =>
        /\ tr.arc.from = <<LastTransform.a * tr.before.from[1]
                               + LastTransform.c * tr.before.from[2] + LastTransform.tx,
                           LastTransform.b * tr.before.from[1]
                               + LastTransform.d * tr.before.from[2] + LastTransform.ty>>
        /\ tr.arc.to = <<LastTransform.a * tr.before.to[1]
                             + LastTransform.c * tr.before.to[2] + LastTransform.tx,
                         LastTransform.b * tr.before.to[1]
                             + LastTransform.d * tr.before.to[2] + LastTransform.ty>>
        /\ (tr.arc.sweep # tr.before.sweep) <=> Mirroring(LastTransform)
        /\ tr.arc.large_arc = tr.before.large_arc
        /\ (Len(tr.applied) = 2 /\ Mirroring(tr.applied[1]) /\ Mirroring(tr.applied[2]))
               => tr.arc.sweep = tr.original.sweep

\* an ellipse mirrored twice, in x and then by the swap of the axes
C23_Witness ==
    /\ tr.pc = "arc"
    /\ tr.original.radii = <<3, 1>>
    /\ tr.applied = <<Affine(-1, 0, 0, 1, 0, 0), Affine(0, 1, 1, 0, 0, 0)>>
    /\ tr.before.sweep # tr.original.sweep
    /\ tr.arc.sweep = tr.original.sweep

PrePassed == cv.pc \in {"prepass", "transform", "done"}

\* C24: the viewport that the pre-pass hands on is the size of the viewport
\* pushed last during its traversal, and 1 x 1 only for a document that
\* pushed none.
C24_LastPushedViewport ==
    PrePassed =>
        cv.pre.viewport =
            IF cv.in.doc.viewports = <<>> THEN <<ROne, ROne>>
            ELSE cv.in.doc.viewports[Len(cv.in.doc.viewports)]

-----------------------------------------------------------------------------
(* The recursion of flattened, arc.rs:94-138, followed call by call at       *)
(* tolerance zero.  max_deviation starts at zero and only grows             *)
(* (arc.rs:119-125), so max_deviation < tolerance is false for every fitted  *)
(* arc and each call that is neither degenerate nor linear bisects.  The     *)
(* control polygons are monotone in both axes, so for_each_monotonic_range   *)
(* hands the callback the whole curve once.  A pending call holds its curve  *)
(* in units of 1/8^depth, which keeps the halves on integers; down to the    *)
(* depths followed here one such unit squared is above EPSILON, so           *)
(* square_length() < EPSILON is from = to.                                   *)

MaxFlattenDepth == 2

ZeroTolerance == <<0, 1>>

Plus(p, q) == <<p[1] + q[1], p[2] + q[2]>>
Times(k, p) == <<k * p[1], k * p[2]>>

\* CubicBezierSegment::split(0.5) (lyon_geom), called at arc.rs:131, in
\* units an eighth of those of cbs
split(cbs) ==
    LET mid == Plus(Plus(cbs.from, Times(3, cbs.ctrl1)),
                    Plus(Times(3, cbs.ctrl2), cbs.to))
    IN  <<[from  |-> Times(8, cbs.from),
           ctrl1 |-> Times(4, Plus(cbs.from, cbs.ctrl1)),
           ctrl2 |-> Times(2, Plus(Plus(cbs.from, Times(2, cbs.ctrl1)), cbs.ctrl2)),
           to    |-> mid],
          [from  |-> mid,
           ctrl1 |-> Times(2, Plus(Plus(cbs.ctrl1, Times(2, cbs.ctrl2)), cbs.to)),
           ctrl2 |-> Times(4, Plus(cbs.ctrl2, cbs.to)),
           to    |-> Times(8, cbs.to)]>>

Monotone(cbs) ==
    \A k \in 1..2 : /\ cbs.from[k] <= cbs.ctrl1[k]
                    /\ cbs.ctrl1[k] <= cbs.ctrl2[k]
                    /\ cbs.ctrl2[k] <= cbs.to[k]

InitFlattenCalls ==
    /\ TurtleIdle
    /\ cv = IdleCv
    /\ dp = IdleDp
    /\ un = IdleUn
    /\ st = IdleSt
    /\ ci = IdleCi
    /\ rd = IdleRd
    /\ tr = IdleTr
    /\ \E cbs \in [from : Grid, ctrl1 : Grid, ctrl2 : Grid, to : Grid] :
           /\ Monotone(cbs)
           /\ fl = [pc |-> "called", cbs |-> cbs, tolerance |-> ZeroTolerance,
                    calls |-> <<[cbs |-> cbs, depth |-> 0]>>, acc |-> <<>>]

FlattenEntered ==
    /\ fl.pc = "called"
    /\ fl.calls # <<>>
    /\ fl.calls[1].depth <= MaxFlattenDepth

\* arc.rs:95-96 and 104-105
FlattenDegenerate ==
    /\ FlattenEntered
    /\ SquareLength(Sub(fl.calls[1].cbs.to, fl.calls[1].cbs.from)) = 0
    /\ fl' = [fl EXCEPT !.calls = Tail(fl.calls)]
    /\ UNCHANGED <<turtleVars, cv, dp, un, st, ci, rd, tr>>

\* arc.rs:97-98 and 106-108
FlattenLinear ==
    /\ FlattenEntered
    /\ SquareLength(Sub(fl.calls[1].cbs.to, fl.calls[1].cbs.from)) # 0
    /\ is_linear(fl.calls[1].cbs, fl.tolerance)
    /\ fl' = [fl EXCEPT !.calls = Tail(fl.calls),
                        !.acc = Append(fl.acc, [kind |-> "Line",
                                                from |-> fl.calls[1].cbs.from,
                                                to |-> fl.calls[1].cbs.to,
                                                depth |-> fl.calls[1].depth])]
    /\ UNCHANGED <<turtleVars, cv, dp, un, st, ci, rd, tr>>

\* arc.rs:130-133: the fitted arc is rejected and both halves are flattened
FlattenBisect ==
    /\ FlattenEntered
    /\ SquareLength(Sub(fl.calls[1].cbs.to, fl.calls[1].cbs.from)) # 0
    /\ ~is_linear(fl.calls[1].cbs, fl.tolerance)
    /\ fl' = [fl EXCEPT !.calls =
                  <<[cbs |-> split(fl.calls[1].cbs)[1], depth |-> fl.calls[1].depth + 1],
                    [cbs |-> split(fl.calls[1].cbs)[2], depth |-> fl.calls[1].depth + 1]>>
                  \o Tail(fl.calls)]
    /\ UNCHANGED <<turtleVars, cv, dp, un, st, ci, rd, tr>>

\* arc.rs:136: the outermost call returns acc
FlattenReturn ==
    /\ fl.pc = "called"
    /\ fl.calls = <<>>
    /\ fl' = [fl EXCEPT !.pc = "done"]
    /\ UNCHANGED <<turtleVars, cv, dp, un, st, ci, rd, tr>>

NextFlattenCalls ==
    \/ FlattenDegenerate
    \/ FlattenLinear
    \/ FlattenBisect
    \/ FlattenReturn

SpecFlattenCalls == InitFlattenCalls /\ [][NextFlattenCalls]_vars

\* C25: the bisection of flattened is cut off at a maximum depth: also when
\* no fitted arc passes the deviation check, no call is made deeper than
\* MaxFlattenDepth.
C25_BisectionCutOff ==
    \A k \in 1..Len(fl.calls) : fl.calls[k].depth <= MaxFlattenDepth

-----------------------------------------------------------------------------
(* Order of the program against the order of the calls and of the           *)
(* flattened primitives                                                      *)

\* the engine after the step
StAfter == [program |-> program', pending_between_layers |-> pending_between_layers',
            line_buffer |-> line_buffer', tool_state |-> tool_state']

\* the tokens the step appends
AppendedBy == SubSeq(program', Len(program) + 1, Len(program'))

MotionKinds == CuttingKinds \cup {"RapidPositioning"}

\* the motion instructions of a token sequence, in order
Motions(tokens) == SelectSeq(tokens, LAMBDA token : token.t \in MotionKinds)

RECURSIVE PrimitiveMotions(_, _)
\* the moves of the first n flattened primitives, in the order of the
\* flattening: a linear move to the end of a Line (g_code.rs:298 and 326),
\* the circular moves of an Arc (g_code.rs:293-296 and 322-324)
PrimitiveMotions(segments, n) ==
    IF n = 0 THEN <<>>
    ELSE PrimitiveMotions(segments, n - 1)
             \o (IF segments[n].kind = "Arc"
                 THEN circular_interpolation(segments[n])
                 ELSE <<LinearInterpolation(segments[n].to)>>)

\* the index of the last Arc among the primitives, 0 without one
LastArc(segments) ==
    IF \E n \in 1..Len(segments) : segments[n].kind = "Arc"
    THEN CHOOSE n \in 1..Len(segments) :
             /\ segments[n].kind = "Arc"
             /\ \A k \in (n + 1)..Len(segments) : segments[k].kind # "Arc"
    ELSE 0

\* C26: with polygon-arc re-detection enabled and circular interpolation
\* supported, a cubic_bezier or arc call appends the moves of its flattened
\* primitives in the order of the flattening: once the call has appended the
\* circular move of an Arc, the linear move of every Line before that Arc is
\* in the program ahead of it.
C26_FlattenedOrder ==
    [][(polygon_arc_enabled /\ supports_circular_interpolation /\ Drawing) =>
          /\ \A c \in CubicCurves :
                 StAfter = cubic_bezier(St, c) =>
                     IsSubsequence(PrimitiveMotions(c.segments, LastArc(c.segments)),
                                   Motions(AppendedBy))
          /\ \A c \in ArcCurves :
                 (~c.straight /\ StAfter = arc(St, c)) =>
                     IsSubsequence(PrimitiveMotions(c.segments, LastArc(c.segments)),
                                   Motions(AppendedBy))]_vars

\* the tokens the step appends ahead of the first token of the given kind
AppendedAhead(kind) ==
    LET k == CHOOSE k \in 1..Len(AppendedBy) :
                 /\ AppendedBy[k].t = kind
                 /\ \A j \in 1..(k - 1) : AppendedBy[j].t # kind
    IN  SubSeq(AppendedBy, 1, k - 1)

AppendsKind(kind) == \E k \in 1..Len(AppendedBy) : AppendedBy[k].t = kind

\* C27: with polygon-arc re-detection enabled, a between-layers sequence
\* enters the program after the moves of all geometry drawn before the
\* between_layers() call: the step that appends the sequence first appends
\* the moves of the points still held in line_buffer.  (When the sequence is
\* appended the buffer holds nothing drawn after the between_layers() call:
\* every drawing call after it either appends the sequence or is a move_to.)
C27_BoundaryAfterGeometry ==
    [][(polygon_arc_enabled /\ AppendsKind("BetweenLayersSequence")) =>
          IsSubsequence(Motions(flush_tokens(line_buffer)),
                        Motions(AppendedAhead("BetweenLayersSequence")))]_vars

\* C28: a comment enters the program after the moves of every line_to
\* issued before it, also with polygon-arc re-detection enabled: the
\* comment() step first appends the moves of the points held in line_buffer.
C28_CommentAfterLines ==
    [][AppendsKind("Comment") =>
          IsSubsequence(Motions(flush_tokens(line_buffer)),
                        Motions(AppendedAhead("Comment")))]_vars

-----------------------------------------------------------------------------
(* The toolpath with and without polygon-arc re-detection on a machine       *)
(* without circular interpolation.  The specification starts from a new      *)
(* turtle or from a buffer about to reach the cap, with re-detection on or   *)
(* off, and makes the calls of Next.                                         *)

InitToolpath == Init \/ InitCap

SpecToolpath == InitToolpath /\ [][Next]_vars

\* the moves of the program followed by the moves the buffer still owes
\* (g_code.rs:110-119)
Toolpath(s) == Motions(s.program) \o LinesSkipFirst(s.line_buffer)

LinesThrough(points) == [i \in 1..Len(points) |-> LinearInterpolation(points[i])]

\* the step is the given call on some input, and for every such input the
\* toolpath grows by exactly the moves of that input
CallMoves(name, inputs, Op(_, _), Moves(_)) ==
    last_call' = name =>
        /\ \E in \in inputs : StAfter = Op(St, in)
        /\ \A in \in inputs :
               StAfter = Op(St, in) => Toolpath(StAfter) = Toolpath(St) \o Moves(in)

\* C29: on a machine without circular interpolation the toolpath does not
\* depend on polygon-arc re-detection: with it on or off every call adds to
\* the moves written or owed the same moves (a rapid move for move_to, a
\* linear move for line_to, a linear move per flattening point for a curve,
\* nothing for the other calls), also on an empty buffer and at the cap, and
\* end() leaves nothing owed, so the moves of the final program are the
\* moves of the calls in order in both cases.
C29_SameToolpath ==
    [][~supports_circular_interpolation =>
          /\ CallMoves("move_to", Points, move_to,
                       LAMBDA to : <<RapidPositioning(to)>>)
          /\ CallMoves("line_to", Points, line_to,
                       LAMBDA to : <<LinearInterpolation(to)>>)
          /\ CallMoves("arc", ArcCurves, arc,
                       LAMBDA c : IF c.straight THEN <<LinearInterpolation(c.to)>>
                                  ELSE LinesThrough(c.points))
          /\ CallMoves("cubic_bezier", CubicCurves, cubic_bezier,
                       LAMBDA c : LinesThrough(c.points))
          /\ CallMoves("quadratic_bezier", QuadraticCurves, quadratic_bezier,
                       LAMBDA c : LinesThrough(c.points))
          /\ last_call' \in {"begin", "comment", "between_layers", "end"} =>
                 Toolpath(StAfter) = Toolpath(St)
          /\ last_call' = "end" => line_buffer' = <<>>]_vars

\* a program ended with re-detection enabled after a forced flush at the cap
\* and a line_to that followed it
C29_Witness ==
    /\ phase = "ended"
    /\ polygon_arc_enabled
    /\ ~supports_circular_interpolation
    /\ CountOf("LinearInterpolation") > MAX_BUFFER_SIZE

=============================================================================
